---- MODULE Spec2Model ----
(***************************************************************************)
(* A model of the input layer of rust-analyzer's base_db crate:            *)
(*   - CrateGraph (crates/base_db/src/input.rs): the arena of crates, the  *)
(*     cycle check of add_dep and the traversals over the dependencies;    *)
(*   - Change (crates/base_db/src/change.rs): the batch of edits and its   *)
(*     application to the database of inputs.                              *)
(* Option<T> values are sequences: <<>> is None and <<x>> is Some(x).      *)
(* A hash map is a function, a hash set is a set; where the code iterates  *)
(* over a hash map, the order of the iteration is an argument (keys).      *)
(***************************************************************************)
EXTENDS Integers, Sequences, FiniteSets, TLC

VARIABLES
    arena,      \* CrateGraph.arena of the graph under construction: CrateId -> CrateData
    other,      \* CrateGraph.arena of a second graph, the argument of extend
    ret,        \* the last call on a graph: its name, its arguments and what it returned
    db,         \* the database of inputs that Change::apply writes to
    change,     \* the Change under construction
    applied,    \* the number of Change::apply calls so far
    third,      \* CrateGraph.arena of a third graph, merged after `other`
    cfg_options,\* CfgOptions.enabled of one set of cfg options
    diff,       \* the CfgDiff that CfgDiff::new returned last (None when it returned None)
    walk,       \* the locals of the traversal of the graph that is running, if any
    load        \* the loader's channel, the vfs and the locals of load_crate_graph

vars == <<arena, other, ret, db, change, applied, third, cfg_options, diff, walk, load>>

(***************************************************************************)
(* Bounds of the model and the sets the inputs are drawn from.             *)
(***************************************************************************)
MaxCrates == 3
MaxEdges == 3
NumFiles == 2
MaxRoots == 2
MaxEdits == 1
MaxApplies == 2
MaxDiffLen == 2
MaxEditRoots == 1
MaxEditsInOrder == 2
MaxNameLen == 4
MaxBuildCalls == 4

None == <<>>
Some(x) == <<x>>

GraphFiles == {1}
GraphDisplayNames == {None}
GraphDepNames == {"a"}

\* FileId values, the texts of the edits and the graphs a Change can carry.
Files == 1..NumFiles
Texts == {"a"}

\* The crates (root file and display name) and the names of the dependencies of
\* the graphs that extend merges.
ExtendCrates == {<<1, None>>, <<2, Some("std")>>}
ExtendDepNames == {"a", "b"}

\* The crates and the names of the dependencies of the graphs that
\* patch_cfg_if and crate_id_for_crate_root are called on.
PatchCrates == {<<1, None>>, <<1, Some("cfg_if")>>, <<2, Some("std")>>}
PatchDepNames == {"a"}

Range(s) == {s[i] : i \in 1..Len(s)}

\* All orders in which the keys of a hash map can be iterated.
Perms(S) ==
    {f \in [1..Cardinality(S) -> S] : \A i, j \in 1..Cardinality(S) : i # j => f[i] # f[j]}

(***************************************************************************)
(* CrateGraph                                                              *)
(***************************************************************************)
\* CrateGraph::default(): an empty arena.
EmptyGraph == <<>>

\* No traversal of the graph is running.
Idle == [op |-> "idle"]

\* load_crate_graph has not been called.
NoLoad == [pc |-> "none"]

\* CrateId(self.arena.len() as u32)
NextCrateId(g) == Cardinality(DOMAIN g)

\* FxHashMap::insert: the map with key k set to v (k is added when it is absent).
MapInsert(m, k, v) == [x \in (DOMAIN m) \cup {k} |-> IF x = k THEN v ELSE m[x]]

\* CrateData as built by add_crate_root: no dependencies.
NewCrateData(file_id, display_name) ==
    [root_file_id |-> file_id, display_name |-> display_name, dependencies |-> <<>>]

\* CrateGraph::add_crate_root: the new graph, the id returned, and whether the
\* assertion that the id was not in the arena holds.
add_crate_root(g, file_id, display_name) ==
    LET crate_id == NextCrateId(g)
    IN  [graph |-> MapInsert(g, crate_id, NewCrateData(file_id, display_name)),
         crate_id |-> crate_id,
         prev_is_none |-> crate_id \notin DOMAIN g]

\* dep.crate_id of every dependency of a crate, in the order of the list.
DepIds(g, krate) == [i \in 1..Len(g[krate].dependencies) |-> g[krate].dependencies[i].crate_id]

RECURSIVE dfs_find(_, _, _, _)
RECURSIVE dfs_find_deps(_, _, _, _, _)

\* CrateGraph::dfs_find: whether target is found from `from`, and the visited set
\* as the call leaves it.
dfs_find(g, target, from, visited) ==
    IF from \in visited
    THEN [found |-> FALSE, visited |-> visited]
    ELSE IF target = from
         THEN [found |-> TRUE, visited |-> visited \cup {from}]
         ELSE dfs_find_deps(g, target, DepIds(g, from), 1, visited \cup {from})

\* dfs_find's loop returning what the search of the first dependency returns.
dfs_find_deps_first_only(g, target, deps, i, visited) ==
    IF i > Len(deps)
    THEN [found |-> FALSE, visited |-> visited]
    ELSE dfs_find(g, target, deps[i], visited)

\* The loop of dfs_find over the dependencies of one crate, from position i on.
dfs_find_deps(g, target, deps, i, visited) ==
    IF i > Len(deps)
    THEN [found |-> FALSE, visited |-> visited]
    ELSE LET r == dfs_find(g, target, deps[i], visited)
         IN  IF r.found THEN r ELSE dfs_find_deps(g, target, deps, i + 1, r.visited)

\* CrateData::add_dep leaving the list alone when it has an edge of that name.
CrateData_add_dep_unless_named(data, name, crate_id) ==
    IF \E i \in 1..Len(data.dependencies) : data.dependencies[i].name = name
    THEN data
    ELSE [data EXCEPT !.dependencies = Append(@, [crate_id |-> crate_id, name |-> name])]

\* CrateData::add_dep: push a Dependency at the end of the list.
CrateData_add_dep(data, name, crate_id) ==
    [data EXCEPT !.dependencies = Append(@, [crate_id |-> crate_id, name |-> name])]

\* CyclicDependenciesError with the two ends exchanged.
CyclicDependenciesError_ends_exchanged(g, from, to) ==
    [from |-> <<to, g[to].display_name>>, to |-> <<from, g[from].display_name>>]

\* CyclicDependenciesError
CyclicDependenciesError(g, from, to) ==
    [from |-> <<from, g[from].display_name>>, to |-> <<to, g[to].display_name>>]

\* add_dep searching from `from` for `to`: the arguments of dfs_find swapped.
add_dep_swapped(g, from, name, to) ==
    IF dfs_find(g, to, from, {}).found
    THEN [graph |-> g, ok |-> FALSE, err |-> Some(CyclicDependenciesError(g, from, to))]
    ELSE [graph |-> [g EXCEPT ![from] = CrateData_add_dep(@, name, to)],
          ok |-> TRUE, err |-> None]

\* add_dep pushing the edge before it runs the search.
add_dep_push_first(g, from, name, to) ==
    LET pushed == [g EXCEPT ![from] = CrateData_add_dep(@, name, to)]
    IN  IF dfs_find(g, from, to, {}).found
        THEN [graph |-> pushed, ok |-> FALSE,
              err |-> Some(CyclicDependenciesError(g, from, to))]
        ELSE [graph |-> pushed, ok |-> TRUE, err |-> None]

\* CrateGraph::add_dep: the new graph and the Result (Ok(()) or Err(error)).
add_dep(g, from, name, to) ==
    IF dfs_find(g, from, to, {}).found
    THEN [graph |-> g, ok |-> FALSE, err |-> Some(CyclicDependenciesError(g, from, to))]
    ELSE [graph |-> [g EXCEPT ![from] = CrateData_add_dep(@, name, to)],
          ok |-> TRUE, err |-> None]

RECURSIVE transitive_deps_loop(_, _, _)
\* The while loop of transitive_deps: pop the last crate of the worklist, skip it
\* when it is in deps, else insert it and push its dependencies.
transitive_deps_loop(g, worklist, deps) ==
    IF worklist = <<>>
    THEN deps
    ELSE LET krate == worklist[Len(worklist)]
             rest == SubSeq(worklist, 1, Len(worklist) - 1)
         IN  IF krate \in deps
             THEN transitive_deps_loop(g, rest, deps)
             ELSE transitive_deps_loop(g, rest \o DepIds(g, krate), deps \cup {krate})

\* transitive_deps with a worklist that starts with the dependencies of `of`.
transitive_deps_without_self(g, of) == transitive_deps_loop(g, DepIds(g, of), {})

\* CrateGraph::transitive_deps: the set the returned iterator runs over.
transitive_deps(g, of) == transitive_deps_loop(g, <<of>>, {})

RECURSIVE InvertDeps(_, _, _, _)
\* The inner for_each of transitive_rev_deps: push krate on the entry of every
\* dependency of krate, from position i on.
InvertDeps(inverted, krate, deps, i) ==
    IF i > Len(deps)
    THEN inverted
    ELSE InvertDeps(
            MapInsert(inverted, deps[i],
                      Append(IF deps[i] \in DOMAIN inverted THEN inverted[deps[i]] ELSE <<>>,
                             krate)),
            krate, deps, i + 1)

RECURSIVE inverted_graph(_, _, _, _)
\* The reverse adjacency index of transitive_rev_deps, built over the arena in
\* the order keys, from position i on.
inverted_graph(g, keys, i, inverted) ==
    IF i > Len(keys)
    THEN inverted
    ELSE inverted_graph(g, keys, i + 1, InvertDeps(inverted, keys[i], DepIds(g, keys[i]), 1))

RECURSIVE PushNew(_, _, _, _)
\* filter(insert).for_each(push): every crate of revs that is not in rev_deps is
\* inserted in rev_deps and pushed on the worklist.
PushNew(revs, i, worklist, rev_deps) ==
    IF i > Len(revs)
    THEN [worklist |-> worklist, rev_deps |-> rev_deps]
    ELSE IF revs[i] \in rev_deps
         THEN PushNew(revs, i + 1, worklist, rev_deps)
         ELSE PushNew(revs, i + 1, Append(worklist, revs[i]), rev_deps \cup {revs[i]})

RECURSIVE transitive_rev_deps_loop(_, _, _)
\* The while loop of transitive_rev_deps.
transitive_rev_deps_loop(inverted, worklist, rev_deps) ==
    IF worklist = <<>>
    THEN rev_deps
    ELSE LET krate == worklist[Len(worklist)]
             rest == SubSeq(worklist, 1, Len(worklist) - 1)
         IN  IF krate \in DOMAIN inverted
             THEN LET p == PushNew(inverted[krate], 1, rest, rev_deps)
                  IN  transitive_rev_deps_loop(inverted, p.worklist, p.rev_deps)
             ELSE transitive_rev_deps_loop(inverted, rest, rev_deps)

\* transitive_rev_deps without the insertion of `of` before the loop.
transitive_rev_deps_without_self(g, keys, of) ==
    transitive_rev_deps_loop(inverted_graph(g, keys, 1, <<>>), <<of>>, {})

\* CrateGraph::transitive_rev_deps, with the arena iterated in the order keys.
transitive_rev_deps(g, keys, of) ==
    transitive_rev_deps_loop(inverted_graph(g, keys, 1, <<>>), <<of>>, {of})

RECURSIVE go(_, _, _)
RECURSIVE go_deps(_, _, _, _)
\* go pushing the crate before it visits the dependencies of the crate.
go_preorder(g, st, source) ==
    IF source \in st.visited
    THEN st
    ELSE go_deps(g, [visited |-> st.visited \cup {source}, res |-> Append(st.res, source)],
                 DepIds(g, source), 1)

\* fn go of crates_in_topological_order; st holds visited and res.
go(g, st, source) ==
    IF source \in st.visited
    THEN st
    ELSE LET after == go_deps(g, [st EXCEPT !.visited = @ \cup {source}], DepIds(g, source), 1)
         IN  [after EXCEPT !.res = Append(@, source)]

\* The for loop of go over the dependencies of one crate, from position i on.
go_deps(g, st, deps, i) ==
    IF i > Len(deps) THEN st ELSE go_deps(g, go(g, st, deps[i]), deps, i + 1)

RECURSIVE topo_loop(_, _, _, _)
\* The for loop of crates_in_topological_order over the keys of the arena.
topo_loop(g, keys, i, st) ==
    IF i > Len(keys) THEN st ELSE topo_loop(g, keys, i + 1, go(g, st, keys[i]))

\* CrateGraph::crates_in_topological_order, with the arena iterated in the order keys.
crates_in_topological_order(g, keys) ==
    topo_loop(g, keys, 1, [visited |-> {}, res |-> <<>>]).res

(***************************************************************************)
(* The traversals one step at a time. A step is one evaluation of the       *)
(* condition and the body of a loop, or one call of, or return from, a      *)
(* recursive function. expanded lists the crates whose dependency list a    *)
(* step has started to iterate, rev_expanded the crates whose list of the   *)
(* inverted graph it has.                                                   *)
(***************************************************************************)
\* Vec::pop: the vector without its last element, and that element.
Pop(s) == SubSeq(s, 1, Len(s) - 1)
Top(s) == s[Len(s)]

\* The locals of transitive_deps before its loop.
transitive_deps_begin(of) ==
    [op |-> "transitive_deps", of |-> of, worklist |-> <<of>>, deps |-> {},
     expanded |-> <<>>, done |-> FALSE]

\* The loop of transitive_deps pushing the dependencies of every crate it pops.
transitive_deps_step_always_extend(g, w) ==
    IF w.worklist = <<>>
    THEN [w EXCEPT !.done = TRUE]
    ELSE LET krate == Top(w.worklist)
         IN  [w EXCEPT !.worklist = Pop(@) \o DepIds(g, krate),
                       !.deps = @ \cup {krate},
                       !.expanded = Append(@, krate)]

\* One round of the while loop of transitive_deps.
transitive_deps_step(g, w) ==
    IF w.worklist = <<>>
    THEN [w EXCEPT !.done = TRUE]
    ELSE LET krate == Top(w.worklist)
         IN  IF krate \in w.deps
             THEN [w EXCEPT !.worklist = Pop(@)]
             ELSE [w EXCEPT !.worklist = Pop(@) \o DepIds(g, krate),
                            !.deps = @ \cup {krate},
                            !.expanded = Append(@, krate)]

\* The locals of transitive_rev_deps before the inverted graph is built; keys is
\* the order in which the arena is iterated and i the position reached.
transitive_rev_deps_begin(keys, of) ==
    [op |-> "transitive_rev_deps", of |-> of, keys |-> keys, i |-> 1,
     worklist |-> <<of>>, rev_deps |-> {of}, inverted |-> <<>>,
     expanded |-> <<>>, rev_expanded |-> <<>>, done |-> FALSE]

\* One entry of the for_each over the arena, or one round of the while loop of
\* transitive_rev_deps.
transitive_rev_deps_step(g, w) ==
    IF w.i <= Len(w.keys)
    THEN [w EXCEPT !.inverted = InvertDeps(@, w.keys[w.i], DepIds(g, w.keys[w.i]), 1),
                   !.i = @ + 1,
                   !.expanded = Append(@, w.keys[w.i])]
    ELSE IF w.worklist = <<>>
    THEN [w EXCEPT !.done = TRUE]
    ELSE LET krate == Top(w.worklist)
         IN  IF krate \in DOMAIN w.inverted
             THEN LET p == PushNew(w.inverted[krate], 1, Pop(w.worklist), w.rev_deps)
                  IN  [w EXCEPT !.worklist = p.worklist,
                                !.rev_deps = p.rev_deps,
                                !.rev_expanded = Append(@, krate)]
             ELSE [w EXCEPT !.worklist = Pop(@)]

\* The locals of crates_in_topological_order before its loop; stack holds one
\* frame (source, position in its dependencies) for every call of go that has
\* not returned.
topo_begin(keys) ==
    [op |-> "crates_in_topological_order", keys |-> keys, i |-> 1, stack |-> <<>>,
     visited |-> {}, res |-> <<>>, expanded |-> <<>>, done |-> FALSE]

\* A call of go(source): it returns at once when source was visited, and enters
\* its for loop otherwise.
go_call(w, source) ==
    IF source \in w.visited
    THEN w
    ELSE [w EXCEPT !.visited = @ \cup {source},
                   !.stack = Append(@, <<source, 1>>),
                   !.expanded = Append(@, source)]

\* One round of the for loop of crates_in_topological_order, or one round of the
\* for loop of the innermost call of go, or its return.
topo_step(g, w) ==
    IF w.stack = <<>>
    THEN IF w.i > Len(w.keys)
         THEN [w EXCEPT !.done = TRUE]
         ELSE go_call([w EXCEPT !.i = @ + 1], w.keys[w.i])
    ELSE LET f == Top(w.stack)
             deps == DepIds(g, f[1])
         IN  IF f[2] > Len(deps)
             THEN [w EXCEPT !.stack = Pop(@), !.res = Append(@, f[1])]
             ELSE go_call([w EXCEPT !.stack = Append(Pop(@), <<f[1], f[2] + 1>>)], deps[f[2]])

\* A call of dfs_find(target, from, visited): it returns false at once when
\* from was visited, true when from is the target, and enters its for loop
\* otherwise.
dfs_find_call(w, from) ==
    IF from \in w.visited
    THEN w
    ELSE IF w.target = from
    THEN [w EXCEPT !.visited = @ \cup {from}, !.found = TRUE]
    ELSE [w EXCEPT !.visited = @ \cup {from},
                   !.stack = Append(@, <<from, 1>>),
                   !.expanded = Append(@, from)]

\* add_dep up to the first call of dfs_find.
add_dep_begin(from, name, to) ==
    dfs_find_call([op |-> "add_dep", from |-> from, name |-> name, to |-> to,
                   target |-> from, stack |-> <<>>, visited |-> {}, expanded |-> <<>>,
                   found |-> FALSE, done |-> FALSE], to)

\* One round of the for loop of the innermost call of dfs_find, or its return;
\* a call that returns true makes every call above it return true.
dfs_find_step(g, w) ==
    IF w.found \/ w.stack = <<>>
    THEN [w EXCEPT !.done = TRUE]
    ELSE LET f == Top(w.stack)
             deps == DepIds(g, f[1])
         IN  IF f[2] > Len(deps)
             THEN [w EXCEPT !.stack = Pop(@)]
             ELSE dfs_find_call([w EXCEPT !.stack = Append(Pop(@), <<f[1], f[2] + 1>>)],
                                deps[f[2]])

\* shift adding one more than the amount.
shift_one_more(id, amount) == id + amount + 1

\* CrateId::shift
shift(id, amount) == id + amount

\* The body of the closure of extend: the dependencies of a crate with every
\* crate_id shifted by start.
ShiftDeps(data, start) ==
    [data EXCEPT !.dependencies =
        [j \in 1..Len(@) |-> [@[j] EXCEPT !.crate_id = shift(@, start)]]]

\* FxHashMap::extend: every entry of the pairs is inserted, in place of an
\* entry with the same key. The keys of the pairs differ from one another.
MapExtend(m, pairs) ==
    [k \in (DOMAIN m) \cup {p[1] : p \in pairs} |->
        IF \E p \in pairs : p[1] = k
        THEN (CHOOSE p \in pairs : p[1] = k)[2]
        ELSE m[k]]

\* extend shifting the ids of the crates and not the targets of their dependencies.
extend_ids_only(g, o) ==
    LET start == Cardinality(DOMAIN g)
    IN  [graph |-> MapExtend(g, {<<shift(id, start), o[id]>> : id \in DOMAIN o}),
         start |-> start]

\* extend shifting the targets of the dependencies by the size of `other`
\* instead of the size of self.
extend_deps_by_other_len(g, o) ==
    LET start == Cardinality(DOMAIN g)
    IN  [graph |-> MapExtend(g, {<<shift(id, start), ShiftDeps(o[id], Cardinality(DOMAIN o))>> :
                                     id \in DOMAIN o}),
         start |-> start]

\* CrateGraph::extend: the graph after the call and the amount returned.
extend(g, o) ==
    LET start == Cardinality(DOMAIN g)
    IN  [graph |-> MapExtend(g, {<<shift(id, start), ShiftDeps(o[id], start)>> : id \in DOMAIN o}),
         start |-> start]

\* The number of dependency edges of a graph.
RECURSIVE SumLens(_, _)
SumLens(g, S) ==
    IF S = {} THEN 0
    ELSE LET k == CHOOSE x \in S : TRUE IN Len(g[k].dependencies) + SumLens(g, S \ {k})
NumEdges(g) == SumLens(g, DOMAIN g)

\* Iterator::find over the entries of the arena, visited in the order keys: the
\* first key whose position is in hits, or None.
FindFirst(keys, hits) ==
    IF hits = {} THEN None
    ELSE Some(keys[CHOOSE i \in hits : \A j \in hits : i <= j])

\* crate_id_for_crate_root returning None when several crates have the root file.
crate_id_for_crate_root_if_unique(g, keys, file_id) ==
    LET hits == {i \in 1..Len(keys) : g[keys[i]].root_file_id = file_id}
    IN  IF Cardinality(hits) = 1 THEN FindFirst(keys, hits) ELSE None

\* CrateGraph::crate_id_for_crate_root
crate_id_for_crate_root(g, keys, file_id) ==
    FindFirst(keys, {i \in 1..Len(keys) : g[keys[i]].root_file_id = file_id})

\* CrateGraph::hacky_find_crate
hacky_find_crate(g, keys, display_name) ==
    FindFirst(keys, {i \in 1..Len(keys) : g[keys[i]].display_name = Some(display_name)})

\* patch_cfg_if without the clearing of the dependencies of cfg_if.
patch_cfg_if_without_clear(g, keys) ==
    LET cfg_if == hacky_find_crate(g, keys, "cfg_if")
        std == hacky_find_crate(g, keys, "std")
    IN  IF cfg_if # None /\ std # None
        THEN [graph |-> [g EXCEPT ![std[1]].dependencies =
                            Append(@, [crate_id |-> cfg_if[1], name |-> "cfg_if"])],
              patched |-> TRUE]
        ELSE [graph |-> g, patched |-> FALSE]

\* patch_cfg_if putting its edge in place of the dependencies of std.
patch_cfg_if_replacing(g, keys) ==
    LET cfg_if == hacky_find_crate(g, keys, "cfg_if")
        std == hacky_find_crate(g, keys, "std")
    IN  IF cfg_if # None /\ std # None
        THEN LET cleared == [g EXCEPT ![cfg_if[1]].dependencies = <<>>]
             IN  [graph |-> [cleared EXCEPT ![std[1]].dependencies =
                                <<[crate_id |-> cfg_if[1], name |-> "cfg_if"]>>],
                  patched |-> TRUE]
        ELSE [graph |-> g, patched |-> FALSE]

\* CrateGraph::patch_cfg_if: the graph after the call and the value returned.
patch_cfg_if(g, keys) ==
    LET cfg_if == hacky_find_crate(g, keys, "cfg_if")
        std == hacky_find_crate(g, keys, "std")
    IN  IF cfg_if # None /\ std # None
        THEN LET cleared == [g EXCEPT ![cfg_if[1]].dependencies = <<>>]
             IN  [graph |-> [cleared EXCEPT ![std[1]].dependencies =
                                Append(@, [crate_id |-> cfg_if[1], name |-> "cfg_if"])],
                  patched |-> TRUE]
        ELSE [graph |-> g, patched |-> FALSE]


(***************************************************************************)
(* SourceRoot and the database of inputs                                   *)
(***************************************************************************)
\* salsa::Durability, as far as change.rs uses it.
LOW == "LOW"
HIGH == "HIGH"

\* SourceRoot::new_local
new_local(file_set) == [is_library |-> FALSE, file_set |-> file_set]

\* SourceRoot::new_library
new_library(file_set) == [is_library |-> TRUE, file_set |-> file_set]

\* The source roots a Change can carry.
SourceRoots == {new_local(fs) : fs \in SUBSET Files} \cup {new_library(fs) : fs \in SUBSET Files}

\* durability with the two cases exchanged.
durability_inverted(source_root) == IF source_root.is_library THEN LOW ELSE HIGH

\* fn durability
durability(source_root) == IF source_root.is_library THEN HIGH ELSE LOW

\* A database in which no input is set. calls lists the set_* calls that the
\* running apply has made so far; it is empty between two calls of apply.
EmptyDb ==
    [file_text |-> <<>>, file_source_root |-> <<>>, source_root |-> <<>>,
     crate_graph |-> None, panicked |-> FALSE, calls |-> <<>>]

\* One set_* call on the database.
Call(input, key, value, dur) == [input |-> input, key |-> key, value |-> value, durability |-> dur]

\* The setters of the inputs: each stores the value with its durability.
set_file_text_with_durability(d, file_id, text, dur) ==
    [d EXCEPT !.file_text = MapInsert(@, file_id, [value |-> text, durability |-> dur]),
              !.calls = Append(@, Call("file_text", file_id, text, dur))]

set_file_source_root_with_durability(d, file_id, root_id, dur) ==
    [d EXCEPT !.file_source_root = MapInsert(@, file_id, [value |-> root_id, durability |-> dur]),
              !.calls = Append(@, Call("file_source_root", file_id, root_id, dur))]

set_source_root_with_durability(d, root_id, root, dur) ==
    [d EXCEPT !.source_root = MapInsert(@, root_id, [value |-> root, durability |-> dur]),
              !.calls = Append(@, Call("source_root", root_id, root, dur))]

set_crate_graph_with_durability(d, graph, dur) ==
    [d EXCEPT !.crate_graph = Some([value |-> graph, durability |-> dur]),
              !.calls = Append(@, Call("crate_graph", None, graph, dur))]

\* Reading an input that was never set panics.
Panic(d) == [d EXCEPT !.panicked = TRUE]

(***************************************************************************)
(* Change                                                                  *)
(***************************************************************************)
\* Change::new
Change_new == [roots |-> None, files_changed |-> <<>>, crate_graph |-> None]

\* set_roots keeping the roots of an earlier call.
set_roots_keep_first(c, roots) == IF c.roots = None THEN [c EXCEPT !.roots = Some(roots)] ELSE c

\* Change::set_roots
set_roots(c, roots) == [c EXCEPT !.roots = Some(roots)]

\* Change::change_file
change_file(c, file_id, new_text) ==
    [c EXCEPT !.files_changed = Append(@, <<file_id, new_text>>)]

\* Change::set_crate_graph
set_crate_graph(c, graph) == [c EXCEPT !.crate_graph = Some(graph)]

RECURSIVE SetFileSourceRoots(_, _, _, _)
\* for file_id in root.iter(): every file of the set is assigned the root.
SetFileSourceRoots(d, files, root_id, dur) ==
    IF files = {}
    THEN d
    ELSE LET file_id == CHOOSE f \in files : TRUE
         IN  SetFileSourceRoots(set_file_source_root_with_durability(d, file_id, root_id, dur),
                                files \ {file_id}, root_id, dur)

RECURSIVE apply_roots(_, _, _)
\* apply's loop over the roots numbering the roots from 1.
apply_roots_from_one(d, roots, i) ==
    IF i > Len(roots)
    THEN d
    ELSE LET root == roots[i]
             root_id == i
             dur == durability(root)
             assigned == SetFileSourceRoots(d, root.file_set, root_id, dur)
         IN  apply_roots(set_source_root_with_durability(assigned, root_id, root, dur),
                         roots, i + 1)

\* The loop of apply over roots.into_iter().enumerate(), from position i on;
\* the root at position i has the index i - 1.
apply_roots(d, roots, i) ==
    IF i > Len(roots)
    THEN d
    ELSE LET root == roots[i]
             root_id == i - 1
             dur == durability(root)
             assigned == SetFileSourceRoots(d, root.file_set, root_id, dur)
         IN  apply_roots(set_source_root_with_durability(assigned, root_id, root, dur),
                         roots, i + 1)

\* text.unwrap_or_default()
unwrap_or_default(text) == IF text = None THEN "" ELSE text[1]

RECURSIVE apply_files_changed_backwards(_, _, _)
\* The loop over files_changed running from the last edit to the first.
apply_files_changed_backwards(d, files_changed, i) ==
    IF i > Len(files_changed)
    THEN d
    ELSE LET file_id == files_changed[Len(files_changed) + 1 - i][1]
             text == files_changed[Len(files_changed) + 1 - i][2]
         IN  IF file_id \notin DOMAIN d.file_source_root
             THEN Panic(d)
             ELSE LET source_root_id == d.file_source_root[file_id].value
                  IN  IF source_root_id \notin DOMAIN d.source_root
                      THEN Panic(d)
                      ELSE LET source_root == d.source_root[source_root_id].value
                               dur == durability(source_root)
                           IN  apply_files_changed_backwards(
                                   set_file_text_with_durability(
                                       d, file_id, unwrap_or_default(text), dur),
                                   files_changed, i + 1)

RECURSIVE apply_files_changed(_, _, _)
\* The loop of apply over files_changed, from position i on.
apply_files_changed(d, files_changed, i) ==
    IF i > Len(files_changed)
    THEN d
    ELSE LET file_id == files_changed[i][1]
             text == files_changed[i][2]
         IN  IF file_id \notin DOMAIN d.file_source_root
             THEN Panic(d)
             ELSE LET source_root_id == d.file_source_root[file_id].value
                  IN  IF source_root_id \notin DOMAIN d.source_root
                      THEN Panic(d)
                      ELSE LET source_root == d.source_root[source_root_id].value
                               dur == durability(source_root)
                           IN  apply_files_changed(
                                   set_file_text_with_durability(
                                       d, file_id, unwrap_or_default(text), dur),
                                   files_changed, i + 1)

\* The last step of apply installing the default graph when the Change has none.
apply_crate_graph_or_default(d, c) ==
    IF d.panicked THEN d
    ELSE set_crate_graph_with_durability(
             d, IF c.crate_graph # None THEN c.crate_graph[1] ELSE EmptyGraph, HIGH)

\* The last step of apply installing the graph only when the database has none.
apply_crate_graph_unless_set(d, c) ==
    IF c.crate_graph # None /\ ~d.panicked /\ d.crate_graph = None
    THEN set_crate_graph_with_durability(d, c.crate_graph[1], HIGH)
    ELSE d

\* The last step of apply: the crate graph, when the Change carries one.
apply_crate_graph(d, c) ==
    IF c.crate_graph # None /\ ~d.panicked
    THEN set_crate_graph_with_durability(d, c.crate_graph[1], HIGH)
    ELSE d

\* apply writing the texts before it installs the roots.
apply_texts_first(c, d) ==
    LET with_texts == apply_files_changed(d, c.files_changed, 1)
        with_roots ==
            IF c.roots # None /\ ~with_texts.panicked
            THEN apply_roots(with_texts, c.roots[1], 1)
            ELSE with_texts
    IN  apply_crate_graph(with_roots, c)

\* Change::apply
apply(c, d) ==
    LET with_roots == IF c.roots # None THEN apply_roots(d, c.roots[1], 1) ELSE d
        with_texts == apply_files_changed(with_roots, c.files_changed, 1)
    IN  apply_crate_graph(with_texts, c)

\* The graphs a Change can carry: a graph of one crate.
ChangeGraphs == {add_crate_root(EmptyGraph, 1, None).graph}

\* The lists of source roots a Change can carry.
RootLists == UNION {[1..n -> SourceRoots] : n \in 0..MaxRoots}

\* The graphs and the lists of source roots of the Changes that carry several
\* edits.
EditGraphs == ChangeGraphs \cup {add_crate_root(EmptyGraph, 2, Some("std")).graph}
EditRootLists == UNION {[1..n -> SourceRoots] : n \in 0..MaxEditRoots}

(***************************************************************************)
(* CrateName                                                               *)
(***************************************************************************)
\* A &str is the sequence of its characters. The names that the constructors
\* are called with: all names of up to MaxNameLen characters out of a letter,
\* the dash and the underscore, and the name of the test dashes_are_normalized.
NameChars == {"a", "-", "_"}
DashedTestName ==
    <<"c", "r", "a", "t", "e", "-", "n", "a", "m", "e", "-", "w", "i", "t", "h", "-", "d", "a", "s", "h", "e", "s">>
Names == UNION {[1..n -> NameChars] : n \in 0..MaxNameLen} \cup {DashedTestName}

\* str::contains(char)
contains(name, ch) == \E i \in 1..Len(name) : name[i] = ch

RECURSIVE replace(_, _, _)
\* str::replace(from, to): every occurrence of the character `from` gives way
\* to the string `to`.
replace(name, from, to) ==
    IF name = <<>> THEN <<>>
    ELSE (IF Head(name) = from THEN to ELSE <<Head(name)>>) \o replace(Tail(name), from, to)

RECURSIVE replace_first(_, _, _)
\* A replace that stops after the first occurrence.
replace_first(name, from, to) ==
    IF name = <<>> THEN <<>>
    ELSE IF Head(name) = from THEN to \o Tail(name)
    ELSE <<Head(name)>> \o replace_first(Tail(name), from, to)

\* SmolStr::new wrapped in CrateName: the characters of the name.
SmolStr_new(name) == name

\* Result::Ok and Result::Err
Ok(x) == [is_ok |-> TRUE, value |-> x]
Err(x) == [is_ok |-> FALSE, value |-> x]

\* CrateName::new
CrateName_new(name) ==
    IF contains(name, "-") THEN Err(name) ELSE Ok(SmolStr_new(name))

\* normalize_dashes replacing the first dash only.
normalize_dashes_first_only(name) == SmolStr_new(replace_first(name, "-", <<"_">>))

\* CrateName::normalize_dashes
normalize_dashes(name) == SmolStr_new(replace(name, "-", <<"_">>))

(***************************************************************************)
(* CfgOptions and CfgDiff                                                  *)
(***************************************************************************)
\* CfgAtom::Flag(key) and CfgAtom::KeyValue { key, value }
Flag(key) == [key |-> key, value |-> None]
KeyValue(key, value) == [key |-> key, value |-> Some(value)]

\* The keys and values of the atoms, the atoms, and the lists of atoms that
\* CfgDiff::new is called with.
CfgKeys == {"a", "b"}
CfgValues == {"x"}
CfgAtoms == {Flag("a"), Flag("b"), KeyValue("a", "x")}
AtomLists == UNION {[1..n -> CfgAtoms] : n \in 0..MaxDiffLen}

\* CfgOptions::insert_atom
insert_atom(enabled, key) == enabled \cup {Flag(key)}

\* CfgOptions::insert_key_value
insert_key_value(enabled, key, value) == enabled \cup {KeyValue(key, value)}

RECURSIVE all_inserted(_, _, _)
\* The loop of CfgDiff::new from item i on: TRUE when every insert into
\* occupied reports that the item was absent.
all_inserted(items, i, occupied) ==
    IF i > Len(items) THEN TRUE
    ELSE IF items[i] \in occupied THEN FALSE
    ELSE all_inserted(items, i + 1, occupied \cup {items[i]})

\* CfgDiff::new looking for repeated atoms in each list on its own.
CfgDiff_new_per_list(enable, disable) ==
    IF all_inserted(enable, 1, {}) /\ all_inserted(disable, 1, {})
    THEN Some([enable |-> enable, disable |-> disable])
    ELSE None

\* CfgDiff::new
CfgDiff_new(enable, disable) ==
    IF all_inserted(enable \o disable, 1, {})
    THEN Some([enable |-> enable, disable |-> disable])
    ELSE None

RECURSIVE insert_each(_, _, _)
\* for atom in diff.enable { self.enabled.insert(atom) }
insert_each(enabled, atoms, i) ==
    IF i > Len(atoms) THEN enabled
    ELSE insert_each(enabled \cup {atoms[i]}, atoms, i + 1)

RECURSIVE remove_each(_, _, _)
\* for atom in diff.disable { self.enabled.remove(&atom) }
remove_each(enabled, atoms, i) ==
    IF i > Len(atoms) THEN enabled
    ELSE remove_each(enabled \ {atoms[i]}, atoms, i + 1)

RECURSIVE toggle_each(_, _, _)
\* A loop that removes an atom that is enabled and inserts one that is not.
toggle_each(enabled, atoms, i) ==
    IF i > Len(atoms) THEN enabled
    ELSE toggle_each(IF atoms[i] \in enabled THEN enabled \ {atoms[i]}
                                              ELSE enabled \cup {atoms[i]}, atoms, i + 1)

\* apply_diff without the loop over diff.disable.
apply_diff_enable_only(enabled, d) == insert_each(enabled, d.enable, 1)

\* apply_diff toggling the atoms of diff.disable.
apply_diff_toggle_disabled(enabled, d) ==
    toggle_each(insert_each(enabled, d.enable, 1), d.disable, 1)

\* CfgOptions::apply_diff
apply_diff(enabled, d) == remove_each(insert_each(enabled, d.enable, 1), d.disable, 1)

(***************************************************************************)
(* The calls on the graph under construction.                              *)
(***************************************************************************)
AddCrateRoot(file_id, display_name) ==
    /\ Cardinality(DOMAIN arena) + Cardinality(DOMAIN other) < MaxCrates
    /\ LET r == add_crate_root(arena, file_id, display_name)
       IN  /\ arena' = r.graph
           /\ ret' = [op |-> "add_crate_root", crate_id |-> r.crate_id,
                      prev_is_none |-> r.prev_is_none]
    /\ UNCHANGED <<other, db, change, applied, third, cfg_options, diff, walk, load>>

AddDep(from, name, to) ==
    /\ from \in DOMAIN arena
    /\ to \in DOMAIN arena
    /\ LET r == add_dep(arena, from, name, to)
       IN  /\ r.ok => NumEdges(arena) + NumEdges(other) < MaxEdges
           /\ arena' = r.graph
           /\ ret' = [op |-> "add_dep", from |-> from, name |-> name, to |-> to,
                      ok |-> r.ok, err |-> r.err]
    /\ UNCHANGED <<other, db, change, applied, third, cfg_options, diff, walk, load>>

TransitiveDeps(of) ==
    /\ of \in DOMAIN arena
    /\ ret' = [op |-> "transitive_deps", of |-> of, out |-> transitive_deps(arena, of)]
    /\ UNCHANGED <<arena, other, db, change, applied, third, cfg_options, diff, walk, load>>

TransitiveRevDeps(of) ==
    /\ of \in DOMAIN arena
    /\ \E keys \in Perms(DOMAIN arena) :
          ret' = [op |-> "transitive_rev_deps", of |-> of,
                  out |-> transitive_rev_deps(arena, keys, of)]
    /\ UNCHANGED <<arena, other, db, change, applied, third, cfg_options, diff, walk, load>>

CratesInTopologicalOrder ==
    /\ \E keys \in Perms(DOMAIN arena) :
          ret' = [op |-> "crates_in_topological_order",
                  out |-> crates_in_topological_order(arena, keys)]
    /\ UNCHANGED <<arena, other, db, change, applied, third, cfg_options, diff, walk, load>>

InitGraph ==
    /\ arena = EmptyGraph
    /\ other = EmptyGraph
    /\ ret = [op |-> "default"]
    /\ db = EmptyDb
    /\ change = Change_new
    /\ applied = 0
    /\ third = EmptyGraph
    /\ cfg_options = {}
    /\ diff = None
    /\ walk = Idle
    /\ load = NoLoad

NextGraph ==
    \/ \E file_id \in GraphFiles, display_name \in GraphDisplayNames :
          AddCrateRoot(file_id, display_name)
    \/ \E from \in DOMAIN arena, to \in DOMAIN arena, name \in GraphDepNames :
          AddDep(from, name, to)
    \/ \E of \in DOMAIN arena : TransitiveDeps(of)
    \/ \E of \in DOMAIN arena : TransitiveRevDeps(of)
    \/ CratesInTopologicalOrder

SpecGraph == InitGraph /\ [][NextGraph]_vars

(***************************************************************************)
(* The calls on a second graph, and extend.                                *)
(***************************************************************************)
OtherAddCrateRoot(file_id, display_name) ==
    /\ Cardinality(DOMAIN arena) + Cardinality(DOMAIN other) < MaxCrates
    /\ LET r == add_crate_root(other, file_id, display_name)
       IN  /\ other' = r.graph
           /\ ret' = [op |-> "other.add_crate_root", crate_id |-> r.crate_id,
                      prev_is_none |-> r.prev_is_none]
    /\ UNCHANGED <<arena, db, change, applied, third, cfg_options, diff, walk, load>>

OtherAddDep(from, name, to) ==
    /\ from \in DOMAIN other
    /\ to \in DOMAIN other
    /\ LET r == add_dep(other, from, name, to)
       IN  /\ r.ok => NumEdges(arena) + NumEdges(other) < MaxEdges
           /\ other' = r.graph
           /\ ret' = [op |-> "other.add_dep", from |-> from, name |-> name, to |-> to,
                      ok |-> r.ok, err |-> r.err]
    /\ UNCHANGED <<arena, db, change, applied, third, cfg_options, diff, walk, load>>

\* self.extend(other): other is moved into the call; a new graph takes its place.
Extend ==
    /\ LET r == extend(arena, other)
       IN  /\ arena' = r.graph
           /\ ret' = [op |-> "extend", start |-> r.start]
    /\ other' = EmptyGraph
    /\ UNCHANGED <<db, change, applied, third, cfg_options, diff, walk, load>>

NextExtend ==
    \/ \E c \in ExtendCrates : AddCrateRoot(c[1], c[2])
    \/ \E from \in DOMAIN arena, to \in DOMAIN arena, name \in ExtendDepNames :
          AddDep(from, name, to)
    \/ \E c \in ExtendCrates : OtherAddCrateRoot(c[1], c[2])
    \/ \E from \in DOMAIN other, to \in DOMAIN other, name \in ExtendDepNames :
          OtherAddDep(from, name, to)
    \/ Extend

SpecExtend == InitGraph /\ [][NextExtend]_vars

(***************************************************************************)
(* Three graphs merged in the two possible groupings.                      *)
(***************************************************************************)
\* The graph of one crate, and of two crates, that add_crate_root builds.
OneCrate(c) == add_crate_root(EmptyGraph, c[1], c[2]).graph
TwoCrates(c, d) == add_crate_root(OneCrate(c), d[1], d[2]).graph

\* The graphs that are merged: every graph of at most two crates and at most
\* one edge that add_crate_root and add_dep build from ExtendCrates.
MergeGraphs ==
    {EmptyGraph}
    \cup {OneCrate(c) : c \in ExtendCrates}
    \cup {TwoCrates(c, d) : c \in ExtendCrates, d \in ExtendCrates}
    \cup {add_dep(TwoCrates(c, d), e[1], "a", e[2]).graph :
             c \in ExtendCrates, d \in ExtendCrates, e \in {<<0, 1>>, <<1, 0>>}}

\* (self.extend(other)).extend(third) on the graph itself, and
\* self.extend(other.extend(third)) on clones of the three graphs; other and
\* third are moved into the calls.
ExtendBoth ==
    /\ ret.op = "default"
    /\ LET ab == extend(arena, other)
           abc == extend(ab.graph, third)
           bc == extend(other, third)
           a_bc == extend(arena, bc.graph)
       IN  /\ arena' = abc.graph
           /\ ret' = [op |-> "extend_both",
                      left_starts |-> <<ab.start, abc.start>>,
                      right |-> a_bc.graph,
                      right_starts |-> <<bc.start, a_bc.start>>]
    /\ other' = EmptyGraph
    /\ third' = EmptyGraph
    /\ UNCHANGED <<db, change, applied, cfg_options, diff, walk, load>>

InitMerge ==
    /\ arena \in MergeGraphs
    /\ other \in MergeGraphs
    /\ third \in MergeGraphs
    /\ ret = [op |-> "default"]
    /\ db = EmptyDb
    /\ change = Change_new
    /\ applied = 0
    /\ cfg_options = {}
    /\ diff = None
    /\ walk = Idle
    /\ load = NoLoad

NextMerge == ExtendBoth

SpecMerge == InitMerge /\ [][NextMerge]_vars

(***************************************************************************)
(* All calls that change a graph, and the lookup of a crate by root file.  *)
(***************************************************************************)
\* self.patch_cfg_if(); before is the graph before the call.
PatchCfgIf ==
    /\ \E keys \in Perms(DOMAIN arena) :
          LET r == patch_cfg_if(arena, keys)
          IN  /\ NumEdges(r.graph) + NumEdges(other) <= MaxEdges
              /\ arena' = r.graph
              /\ ret' = [op |-> "patch_cfg_if", out |-> r.patched, before |-> arena]
    /\ UNCHANGED <<other, db, change, applied, third, cfg_options, diff, walk, load>>

CrateIdForCrateRoot(file_id) ==
    /\ \E keys \in Perms(DOMAIN arena) :
          ret' = [op |-> "crate_id_for_crate_root", file_id |-> file_id,
                  out |-> crate_id_for_crate_root(arena, keys, file_id)]
    /\ UNCHANGED <<arena, other, db, change, applied, third, cfg_options, diff, walk, load>>

NextCrates ==
    \/ \E c \in PatchCrates : AddCrateRoot(c[1], c[2])
    \/ \E from \in DOMAIN arena, to \in DOMAIN arena, name \in PatchDepNames :
          AddDep(from, name, to)
    \/ \E c \in PatchCrates : OtherAddCrateRoot(c[1], c[2])
    \/ \E from \in DOMAIN other, to \in DOMAIN other, name \in PatchDepNames :
          OtherAddDep(from, name, to)
    \/ Extend
    \/ PatchCfgIf
    \/ \E file_id \in Files : CrateIdForCrateRoot(file_id)

SpecCrates == InitGraph /\ [][NextCrates]_vars

(***************************************************************************)
(* The traversals of the graph, one step at a time. The graph is borrowed  *)
(* while a call runs: no other call starts before it returns.              *)
(***************************************************************************)
\* The graph of the diamond 0 -> 1 -> 3, 0 -> 2 -> 3, built by add_crate_root
\* and add_dep.
FourCrates ==
    add_crate_root(add_crate_root(add_crate_root(add_crate_root(
        EmptyGraph, 1, None).graph, 1, None).graph, 1, None).graph, 1, None).graph
DiamondGraph ==
    add_dep(add_dep(add_dep(add_dep(
        FourCrates, 0, "a", 1).graph, 0, "a", 2).graph, 1, "a", 3).graph, 2, "a", 3).graph

WalkAddCrateRoot(file_id, display_name) ==
    /\ walk = Idle
    /\ load = NoLoad
    /\ AddCrateRoot(file_id, display_name)

BeginAddDep(from, name, to) ==
    /\ walk = Idle
    /\ load = NoLoad
    /\ from \in DOMAIN arena
    /\ to \in DOMAIN arena
    /\ add_dep(arena, from, name, to).ok => NumEdges(arena) < MaxEdges
    /\ walk' = add_dep_begin(from, name, to)
    /\ UNCHANGED <<arena, other, ret, db, change, applied, third, cfg_options, diff, load>>

StepAddDep ==
    /\ walk.op = "add_dep"
    /\ LET w == dfs_find_step(arena, walk)
       IN  IF ~w.done
           THEN walk' = w /\ UNCHANGED <<arena, ret, load>>
           ELSE /\ walk' = Idle
                /\ IF w.found
                   THEN /\ UNCHANGED arena
                        /\ ret' = [op |-> "add_dep", from |-> w.from, name |-> w.name,
                                   to |-> w.to, ok |-> FALSE,
                                   err |-> Some(CyclicDependenciesError(arena, w.from, w.to))]
                   ELSE /\ arena' = [arena EXCEPT ![w.from] = CrateData_add_dep(@, w.name, w.to)]
                        /\ ret' = [op |-> "add_dep", from |-> w.from, name |-> w.name,
                                   to |-> w.to, ok |-> TRUE, err |-> None]
    /\ UNCHANGED <<other, db, change, applied, third, cfg_options, diff, load>>

BeginTransitiveDeps(of) ==
    /\ walk = Idle
    /\ load = NoLoad
    /\ of \in DOMAIN arena
    /\ walk' = transitive_deps_begin(of)
    /\ UNCHANGED <<arena, other, ret, db, change, applied, third, cfg_options, diff, load>>

StepTransitiveDeps ==
    /\ walk.op = "transitive_deps"
    /\ LET w == transitive_deps_step(arena, walk)
       IN  IF ~w.done
           THEN walk' = w /\ UNCHANGED ret
           ELSE /\ walk' = Idle
                /\ ret' = [op |-> "transitive_deps", of |-> w.of, out |-> w.deps]
    /\ UNCHANGED <<arena, other, db, change, applied, third, cfg_options, diff, load>>

BeginTransitiveRevDeps(of) ==
    /\ walk = Idle
    /\ load = NoLoad
    /\ of \in DOMAIN arena
    /\ \E keys \in Perms(DOMAIN arena) : walk' = transitive_rev_deps_begin(keys, of)
    /\ UNCHANGED <<arena, other, ret, db, change, applied, third, cfg_options, diff, load>>

StepTransitiveRevDeps ==
    /\ walk.op = "transitive_rev_deps"
    /\ LET w == transitive_rev_deps_step(arena, walk)
       IN  IF ~w.done
           THEN walk' = w /\ UNCHANGED ret
           ELSE /\ walk' = Idle
                /\ ret' = [op |-> "transitive_rev_deps", of |-> w.of, out |-> w.rev_deps]
    /\ UNCHANGED <<arena, other, db, change, applied, third, cfg_options, diff, load>>

BeginTopologicalOrder ==
    /\ walk = Idle
    /\ load = NoLoad
    /\ \E keys \in Perms(DOMAIN arena) : walk' = topo_begin(keys)
    /\ UNCHANGED <<arena, other, ret, db, change, applied, third, cfg_options, diff, load>>

StepTopologicalOrder ==
    /\ walk.op = "crates_in_topological_order"
    /\ LET w == topo_step(arena, walk)
       IN  IF ~w.done
           THEN walk' = w /\ UNCHANGED ret
           ELSE /\ walk' = Idle
                /\ ret' = [op |-> "crates_in_topological_order", out |-> w.res]
    /\ UNCHANGED <<arena, other, db, change, applied, third, cfg_options, diff, load>>

InitWalk ==
    /\ arena \in {EmptyGraph, DiamondGraph}
    /\ other = EmptyGraph
    /\ ret = [op |-> "default"]
    /\ db = EmptyDb
    /\ change = Change_new
    /\ applied = 0
    /\ third = EmptyGraph
    /\ cfg_options = {}
    /\ diff = None
    /\ walk = Idle
    /\ load = NoLoad

WalkStep ==
    \/ StepAddDep
    \/ StepTransitiveDeps
    \/ StepTransitiveRevDeps
    \/ StepTopologicalOrder

NextWalk ==
    \/ \E file_id \in GraphFiles, display_name \in GraphDisplayNames :
          WalkAddCrateRoot(file_id, display_name)
    \/ \E from \in DOMAIN arena, to \in DOMAIN arena, name \in GraphDepNames :
          BeginAddDep(from, name, to)
    \/ \E of \in DOMAIN arena : BeginTransitiveDeps(of)
    \/ \E of \in DOMAIN arena : BeginTransitiveRevDeps(of)
    \/ BeginTopologicalOrder
    \/ StepAddDep
    \/ StepTransitiveDeps
    \/ StepTransitiveRevDeps
    \/ StepTopologicalOrder

\* A call that runs takes its next step: the code runs every call to its end.
SpecWalk == InitWalk /\ [][NextWalk]_vars /\ WF_vars(WalkStep)

(***************************************************************************)
(* The constructors of CrateName.                                          *)
(***************************************************************************)
CrateNameNew(name) ==
    /\ ret' = [op |-> "CrateName::new", name |-> name, out |-> CrateName_new(name)]
    /\ UNCHANGED <<arena, other, db, change, applied, third, cfg_options, diff, walk, load>>

NormalizeDashes(name) ==
    /\ ret' = [op |-> "normalize_dashes", name |-> name, out |-> normalize_dashes(name)]
    /\ UNCHANGED <<arena, other, db, change, applied, third, cfg_options, diff, walk, load>>

NextName ==
    \/ \E name \in Names : CrateNameNew(name)
    \/ \E name \in Names : NormalizeDashes(name)

SpecName == InitGraph /\ [][NextName]_vars

(***************************************************************************)
(* The calls on a set of cfg options.                                      *)
(***************************************************************************)
InsertAtom(key) ==
    /\ cfg_options' = insert_atom(cfg_options, key)
    /\ ret' = [op |-> "insert_atom", key |-> key]
    /\ UNCHANGED <<arena, other, db, change, applied, third, diff, walk, load>>

InsertKeyValue(key, value) ==
    /\ cfg_options' = insert_key_value(cfg_options, key, value)
    /\ ret' = [op |-> "insert_key_value", key |-> key, value |-> value]
    /\ UNCHANGED <<arena, other, db, change, applied, third, diff, walk, load>>

CfgDiffNew(enable, disable) ==
    /\ diff' = CfgDiff_new(enable, disable)
    /\ ret' = [op |-> "CfgDiff::new", enable |-> enable, disable |-> disable,
               out |-> CfgDiff_new(enable, disable)]
    /\ UNCHANGED <<arena, other, db, change, applied, third, cfg_options, walk, load>>

\* self.apply_diff(diff.clone()): before is the set before the call, repeated
\* tells that the call before this one applied the same diff.
ApplyDiff ==
    /\ diff # None
    /\ cfg_options' = apply_diff(cfg_options, diff[1])
    /\ ret' = [op |-> "apply_diff", diff |-> diff[1], before |-> cfg_options,
               repeated |-> (ret.op = "apply_diff" /\ ret.diff = diff[1])]
    /\ UNCHANGED <<arena, other, db, change, applied, third, diff, walk, load>>

NextCfg ==
    \/ \E key \in CfgKeys : InsertAtom(key)
    \/ \E key \in {"a"}, value \in CfgValues : InsertKeyValue(key, value)
    \/ \E enable \in AtomLists, disable \in AtomLists : CfgDiffNew(enable, disable)
    \/ ApplyDiff

SpecCfg == InitGraph /\ [][NextCfg]_vars

(***************************************************************************)
(* The calls on the Change under construction and on the database.         *)
(***************************************************************************)
SetRoots(roots) ==
    /\ ~db.panicked
    /\ applied < MaxApplies
    /\ change' = set_roots(change, roots)
    /\ UNCHANGED <<arena, other, ret, db, applied, third, cfg_options, diff, walk, load>>

ChangeFile(file_id, new_text) ==
    /\ ~db.panicked
    /\ applied < MaxApplies
    /\ Len(change.files_changed) < MaxEdits
    /\ change' = change_file(change, file_id, new_text)
    /\ UNCHANGED <<arena, other, ret, db, applied, third, cfg_options, diff, walk, load>>

SetCrateGraph(graph) ==
    /\ ~db.panicked
    /\ applied < MaxApplies
    /\ change' = set_crate_graph(change, graph)
    /\ UNCHANGED <<arena, other, ret, db, applied, third, cfg_options, diff, walk, load>>

Apply ==
    /\ ~db.panicked
    /\ applied < MaxApplies
    /\ db' = [apply(change, db) EXCEPT !.calls = <<>>]
    /\ change' = Change_new
    /\ applied' = applied + 1
    /\ UNCHANGED <<arena, other, ret, third, cfg_options, diff, walk, load>>

InitChange ==
    /\ arena = EmptyGraph
    /\ other = EmptyGraph
    /\ ret = [op |-> "default"]
    /\ db = EmptyDb
    /\ change = Change_new
    /\ applied = 0
    /\ third = EmptyGraph
    /\ cfg_options = {}
    /\ diff = None
    /\ walk = Idle
    /\ load = NoLoad

NextChange ==
    \/ \E roots \in RootLists : SetRoots(roots)
    \/ \E file_id \in Files, new_text \in {None} \cup {Some(t) : t \in Texts} :
          ChangeFile(file_id, new_text)
    \/ \E graph \in ChangeGraphs : SetCrateGraph(graph)
    \/ Apply

SpecChange == InitChange /\ [][NextChange]_vars

(***************************************************************************)
(* Changes with several edits; the last Change applied is kept in ret.     *)
(***************************************************************************)
EditFile(file_id, new_text) ==
    /\ ~db.panicked
    /\ applied < MaxApplies
    /\ Len(change.files_changed) < MaxEditsInOrder
    /\ change' = change_file(change, file_id, new_text)
    /\ UNCHANGED <<arena, other, ret, db, applied, third, cfg_options, diff, walk, load>>

ApplyChange ==
    /\ ~db.panicked
    /\ applied < MaxApplies
    /\ db' = [apply(change, db) EXCEPT !.calls = <<>>]
    /\ ret' = [op |-> "apply", change |-> change]
    /\ change' = Change_new
    /\ applied' = applied + 1
    /\ UNCHANGED <<arena, other, third, cfg_options, diff, walk, load>>

NextEdits ==
    \/ \E roots \in EditRootLists : SetRoots(roots)
    \/ \E file_id \in Files, new_text \in {None} \cup {Some(t) : t \in Texts} :
          EditFile(file_id, new_text)
    \/ \E graph \in EditGraphs : SetCrateGraph(graph)
    \/ ApplyChange

SpecEdits == InitChange /\ [][NextEdits]_vars

(***************************************************************************)
(* A Change built by calls in any order; ret keeps the list of the calls   *)
(* that built the Change under construction, or the Change applied last.   *)
(***************************************************************************)
\* The lists of roots of the Changes that are built in any order.
BuildRootLists ==
    {<<>>, <<new_local(Files)>>, <<new_library({1})>>}

\* The calls that have built the Change under construction.
BuildLog == IF ret.op = "build" THEN ret.log ELSE <<>>

BuildSetRoots(roots) ==
    /\ ~db.panicked
    /\ applied < MaxApplies
    /\ Len(BuildLog) < MaxBuildCalls
    /\ change' = set_roots(change, roots)
    /\ ret' = [op |-> "build", log |-> Append(BuildLog, [call |-> "set_roots", roots |-> roots])]
    /\ UNCHANGED <<arena, other, db, applied, third, cfg_options, diff, walk, load>>

BuildChangeFile(file_id, new_text) ==
    /\ ~db.panicked
    /\ applied < MaxApplies
    /\ Len(BuildLog) < MaxBuildCalls
    /\ change' = change_file(change, file_id, new_text)
    /\ ret' = [op |-> "build",
               log |-> Append(BuildLog, [call |-> "change_file", file_id |-> file_id,
                                         new_text |-> new_text])]
    /\ UNCHANGED <<arena, other, db, applied, third, cfg_options, diff, walk, load>>

BuildSetCrateGraph(graph) ==
    /\ ~db.panicked
    /\ applied < MaxApplies
    /\ Len(BuildLog) < MaxBuildCalls
    /\ change' = set_crate_graph(change, graph)
    /\ ret' = [op |-> "build",
               log |-> Append(BuildLog, [call |-> "set_crate_graph", graph |-> graph])]
    /\ UNCHANGED <<arena, other, db, applied, third, cfg_options, diff, walk, load>>

ApplyBuilt ==
    /\ ~db.panicked
    /\ applied < MaxApplies
    /\ db' = [apply(change, db) EXCEPT !.calls = <<>>]
    /\ ret' = [op |-> "applied", log |-> BuildLog]
    /\ change' = Change_new
    /\ applied' = applied + 1
    /\ UNCHANGED <<arena, other, third, cfg_options, diff, walk, load>>

NextBuild ==
    \/ \E roots \in BuildRootLists : BuildSetRoots(roots)
    \/ \E file_id \in Files, new_text \in {None} \cup {Some(t) : t \in Texts} :
          BuildChangeFile(file_id, new_text)
    \/ \E graph \in EditGraphs : BuildSetCrateGraph(graph)
    \/ ApplyBuilt

SpecBuild == InitChange /\ [][NextBuild]_vars

(***************************************************************************)
(* load_crate_graph: the loader thread sends messages over a channel, and  *)
(* load_crate_graph receives them, writes the loaded files to the vfs and  *)
(* builds the Change from the changes the vfs has recorded.                *)
(***************************************************************************)
\* The most messages the loader sends.
MaxMessages == 3

\* The most files of one Loaded message.
MaxLoadedFiles == 1

\* The largest n_total of a Progress message.
MaxTotal == 1

\* The paths the loader loads.
VfsPaths == {"a.rs", "b.rs"}

\* The contents of a file as bytes: "a", "é" (two bytes), and the first byte
\* of "é" alone, which is not UTF-8.
FileBytes == {<<97>>, <<195, 169>>, <<195>>}

\* The contents of a loaded file: None for a file that could not be read.
FileContents == {None} \cup {Some(b) : b \in FileBytes}

Progress(n_done, n_total) == [kind |-> "Progress", n_done |-> n_done, n_total |-> n_total]

Loaded(files) == [kind |-> "Loaded", files |-> files]

\* The lists of (path, contents) pairs of a Loaded message.
LoadedFileLists ==
    UNION {[1..n -> VfsPaths \X FileContents] : n \in 0..MaxLoadedFiles}

\* The messages the loader sends.
LoaderMessages ==
    {Progress(n_done, n_total) : n_done \in 0..MaxTotal, n_total \in 0..MaxTotal}
        \cup {Loaded(files) : files \in LoadedFileLists}

\* A byte that continues a character of several bytes.
IsContinuation(bytes, i) == i <= Len(bytes) /\ bytes[i] \in 128..191

\* Whether the bytes from position i on are well-formed UTF-8.
RECURSIVE utf8_from(_, _)
utf8_from(bytes, i) ==
    IF i > Len(bytes) THEN TRUE
    ELSE LET b == bytes[i]
             b2 == IF i + 1 <= Len(bytes) THEN bytes[i + 1] ELSE 0
         IN  IF b < 128 THEN utf8_from(bytes, i + 1)
             ELSE IF b \in 194..223
                  THEN IsContinuation(bytes, i + 1) /\ utf8_from(bytes, i + 2)
             ELSE IF b \in 224..239
                  THEN /\ IsContinuation(bytes, i + 1)
                       /\ (b = 224 => b2 >= 160)
                       /\ (b = 237 => b2 <= 159)
                       /\ IsContinuation(bytes, i + 2)
                       /\ utf8_from(bytes, i + 3)
             ELSE IF b \in 240..244
                  THEN /\ IsContinuation(bytes, i + 1)
                       /\ (b = 240 => b2 >= 144)
                       /\ (b = 244 => b2 <= 143)
                       /\ IsContinuation(bytes, i + 2)
                       /\ IsContinuation(bytes, i + 3)
                       /\ utf8_from(bytes, i + 4)
             ELSE FALSE

\* String::from_utf8: the string of the same bytes, or an error.
String_from_utf8(bytes) == IF utf8_from(bytes, 1) THEN Ok(bytes) ELSE Err(bytes)

\* The vfs: the paths interned in the order of their first use (a file's id
\* is its position, from 0), the contents of each file, and the changes
\* recorded since they were taken last.
EmptyVfs == [interner |-> <<>>, data |-> <<>>, changes |-> <<>>]

Vfs_alloc_file_id(vfs, path) ==
    IF path \in Range(vfs.interner)
    THEN vfs
    ELSE [vfs EXCEPT !.interner = Append(@, path), !.data = Append(@, None)]

Vfs_file_id(vfs, path) ==
    IF path \in Range(vfs.interner)
    THEN Some((CHOOSE i \in 1..Len(vfs.interner) : vfs.interner[i] = path) - 1)
    ELSE None

\* Vfs::set_file_contents: records a change unless the contents stay the same.
Vfs_set_file_contents(vfs, path, file_contents) ==
    LET v == Vfs_alloc_file_id(vfs, path)
        id == Vfs_file_id(v, path)[1]
        old == v.data[id + 1]
        change_kind == IF old = None THEN "Create"
                       ELSE IF file_contents = None THEN "Delete" ELSE "Modify"
    IN  IF old = file_contents
        THEN v
        ELSE [v EXCEPT !.data[id + 1] = file_contents,
                       !.changes = Append(@, [file_id |-> id, change_kind |-> change_kind])]

\* Vfs::take_changes: hands out the recorded changes and forgets them.
Vfs_take_changes(vfs) ==
    [vfs |-> [vfs EXCEPT !.changes = <<>>], changes |-> vfs.changes]

\* ChangedFile::exists
ChangedFile_exists(file) == file.change_kind # "Delete"

\* Vfs::file_contents: the contents of the file, which it unwraps.
Vfs_file_contents(vfs, id) == vfs.data[id + 1]

\* SourceRootConfig::partition: the files of the vfs, here in one local root.
partition(vfs) == <<new_local({i - 1 : i \in 1..Len(vfs.interner)})>>

\* The writes of the files of one Loaded message, in their order.
RECURSIVE load_files(_, _, _)
load_files(vfs, files, i) ==
    IF i > Len(files) THEN vfs
    ELSE load_files(Vfs_set_file_contents(vfs, files[i][1], files[i][2]), files, i + 1)

\* One turn of the loop over the receiver with the message that any Progress ends.
load_receive_until_progress(l, task) ==
    IF task.kind = "Progress"
    THEN [l EXCEPT !.pc = "take"]
    ELSE [l EXCEPT !.vfs = load_files(@, task.files, 1)]

\* One turn of the loop over the receiver, with the message received.
load_receive(l, task) ==
    IF task.kind = "Progress"
    THEN IF task.n_done = task.n_total THEN [l EXCEPT !.pc = "take"] ELSE l
    ELSE [l EXCEPT !.vfs = load_files(@, task.files, 1)]

\* The loop over the changes taken from the vfs: an edit for each file that
\* exists and holds UTF-8.  Reading a file without contents panics.
RECURSIVE load_changes(_, _, _, _)
load_changes(vfs, changes, i, analysis_change) ==
    IF i > Len(changes) THEN [panicked |-> FALSE, change |-> analysis_change]
    ELSE LET file == changes[i]
         IN  IF ~ChangedFile_exists(file)
             THEN load_changes(vfs, changes, i + 1, analysis_change)
             ELSE IF Vfs_file_contents(vfs, file.file_id) = None
                  THEN [panicked |-> TRUE, change |-> analysis_change]
                  ELSE LET text == String_from_utf8(Vfs_file_contents(vfs, file.file_id)[1])
                       IN  IF text.is_ok
                           THEN load_changes(vfs, changes, i + 1,
                                    change_file(analysis_change, file.file_id, Some(text.value)))
                           ELSE load_changes(vfs, changes, i + 1, analysis_change)

\* load_crate_graph after the loop over the receiver.
load_finish(l, analysis_change) ==
    LET t == Vfs_take_changes(l.vfs)
        r == load_changes(t.vfs, t.changes, 1, analysis_change)
    IN  IF r.panicked
        THEN [load |-> [l EXCEPT !.pc = "panicked", !.vfs = t.vfs, !.taken = t.changes],
              change |-> r.change]
        ELSE [load |-> [l EXCEPT !.pc = "done", !.vfs = t.vfs, !.taken = t.changes],
              change |-> set_crate_graph(set_roots(r.change, partition(t.vfs)), l.crate_graph)]

\* The vfs at the call of load_crate_graph: empty, or holding the file that
\* load_change has read while it built the crate graph.
LoadVfs == {EmptyVfs, Vfs_set_file_contents(EmptyVfs, "a.rs", Some(<<97>>))}

\* The loader sends a message.
LoaderSend(task) ==
    /\ load.pc # "none"
    /\ ~load.closed
    /\ Len(load.sent) < MaxMessages
    /\ load' = [load EXCEPT !.channel = Append(@, task), !.sent = Append(@, task)]
    /\ UNCHANGED <<arena, other, ret, db, change, applied, third, cfg_options, diff, walk>>

\* The loader drops its sender, which closes the channel.
LoaderDrop ==
    /\ load.pc # "none"
    /\ ~load.closed
    /\ load' = [load EXCEPT !.closed = TRUE]
    /\ UNCHANGED <<arena, other, ret, db, change, applied, third, cfg_options, diff, walk>>

\* load_crate_graph receives the next message.
LoadReceive ==
    /\ load.pc = "recv"
    /\ load.channel # <<>>
    /\ load' = load_receive([load EXCEPT !.channel = Tail(@), !.received = @ + 1],
                            Head(load.channel))
    /\ UNCHANGED <<arena, other, ret, db, change, applied, third, cfg_options, diff, walk>>

\* The loop over the receiver ends because the channel is closed and empty.
LoadDisconnected ==
    /\ load.pc = "recv"
    /\ load.channel = <<>>
    /\ load.closed
    /\ load' = [load EXCEPT !.pc = "take"]
    /\ UNCHANGED <<arena, other, ret, db, change, applied, third, cfg_options, diff, walk>>

\* load_crate_graph takes the changes of the vfs and returns the Change.
LoadFinish ==
    /\ load.pc = "take"
    /\ LET r == load_finish(load, change)
       IN  /\ load' = r.load
           /\ change' = r.change
           /\ ret' = [op |-> "load_crate_graph", ok |-> ~r.load.pc = "panicked"]
    /\ UNCHANGED <<arena, other, db, applied, third, cfg_options, diff, walk>>

InitLoad ==
    /\ arena = EmptyGraph
    /\ other = EmptyGraph
    /\ ret = [op |-> "default"]
    /\ db = EmptyDb
    /\ change = Change_new
    /\ applied = 0
    /\ third = EmptyGraph
    /\ cfg_options = {}
    /\ diff = None
    /\ walk = Idle
    /\ \E vfs \in LoadVfs, crate_graph \in EditGraphs :
          load = [pc |-> "recv", channel |-> <<>>, closed |-> FALSE, sent |-> <<>>,
                  received |-> 0, vfs |-> vfs, taken |-> <<>>,
                  crate_graph |-> crate_graph]

NextLoad ==
    \/ \E task \in LoaderMessages : LoaderSend(task)
    \/ LoaderDrop
    \/ LoadReceive
    \/ LoadDisconnected
    \/ LoadFinish

SpecLoad == InitLoad /\ [][NextLoad]_vars

(***************************************************************************)
(* The dependency relation, stated without the code's traversals.          *)
(***************************************************************************)
\* v is the target of a dependency edge of u.
Edge(g, u, v) == u \in DOMAIN g /\ \E i \in 1..Len(g[u].dependencies) : g[u].dependencies[i].crate_id = v

\* The targets of the edges that leave the crates of S.
Successors(g, S) == {v \in DOMAIN g : \E u \in S : Edge(g, u, v)}

RECURSIVE Closure(_, _)
\* The crates reachable from the crates of S by zero or more edges.
Closure(g, S) ==
    LET N == S \cup Successors(g, S) IN IF N = S THEN S ELSE Closure(g, N)

\* v is reachable from u by zero or more edges.
Reaches(g, u, v) == v \in Closure(g, {u})

\* v is reachable from u by one or more edges.
ReachesByEdges(g, u, v) == v \in Closure(g, Successors(g, {u}))

\* The position of x in the sequence s (0 when x is not in s).
PositionIn(s, x) == IF \E i \in 1..Len(s) : s[i] = x THEN CHOOSE i \in 1..Len(s) : s[i] = x ELSE 0

(***************************************************************************)
(* Claims about the crate graph.                                           *)
(***************************************************************************)
\* C1: after any sequence of add_crate_root and add_dep calls, accepted or
\* rejected, on an empty graph, no crate reaches itself by one or more edges.
C1_Acyclic == \A u \in DOMAIN arena : ~ReachesByEdges(arena, u, u)

\* C1 witness: an add_dep that would close a cycle of more than one edge was rejected.
C1_Witness ==
    /\ ret.op = "add_dep" /\ ~ret.ok /\ ret.from # ret.to
    /\ ~Edge(arena, ret.to, ret.from)
    /\ NumEdges(arena) >= 2

\* C2: an add_dep that returns the cycle error leaves the graph as it was: the
\* same crates, each with the same list of dependencies.
C2_RejectedAddDepKeepsGraph ==
    [][(ret'.op = "add_dep" /\ ~ret'.ok) => arena' = arena]_vars

\* C2 witness: a rejected add_dep on a graph that has edges.
C2_Witness == ret.op = "add_dep" /\ ~ret.ok /\ NumEdges(arena) >= 1 /\ ret.err # None

\* C3: add_dep(from, name, to) on existing crates returns the cycle error exactly
\* when `from` is reachable from `to` by zero or more edges of the graph it is
\* called on, and succeeds otherwise.
C3_RejectedIffReachable ==
    [][ret'.op = "add_dep" => (~ret'.ok <=> Reaches(arena, ret'.to, ret'.from))]_vars

\* C3 witness: an add_dep was rejected whose target has two dependencies, of
\* which the first does not lead to `from` and the second does.
C3_Witness ==
    /\ ret.op = "add_dep" /\ ~ret.ok /\ ret.from # ret.to
    /\ Len(arena[ret.to].dependencies) >= 2
    /\ ~Reaches(arena, arena[ret.to].dependencies[1].crate_id, ret.from)

\* C4: crates_in_topological_order returns every crate of the graph exactly once,
\* and the target of every edge at an earlier position than the source of the edge.
C4_TopologicalOrder ==
    ret.op = "crates_in_topological_order" =>
        /\ Len(ret.out) = Cardinality(DOMAIN arena)
        /\ Range(ret.out) = DOMAIN arena
        /\ \A u, v \in DOMAIN arena :
              Edge(arena, u, v) => PositionIn(ret.out, v) < PositionIn(ret.out, u)

\* C4 witness: the order of a graph of three crates with a crate that two
\* crates depend on, which is not the order of the identifiers.
C4_Witness ==
    /\ ret.op = "crates_in_topological_order"
    /\ Len(ret.out) = 3
    /\ \E u, v, w \in DOMAIN arena :
          u # v /\ Edge(arena, u, w) /\ Edge(arena, v, w) /\ Edge(arena, u, v)
    /\ ret.out # <<0, 1, 2>>

\* C5: transitive_deps(u) yields exactly the crates reachable from u by zero or
\* more edges: u itself, the target of every edge of u, and nothing unreachable.
C5_TransitiveDeps ==
    ret.op = "transitive_deps" =>
        /\ ret.out = Closure(arena, {ret.of})
        /\ ret.of \in ret.out
        /\ \A v \in DOMAIN arena : Edge(arena, ret.of, v) => v \in ret.out
        /\ \A v \in ret.out : Reaches(arena, ret.of, v)

\* C5 witness: the closure of a crate with two dependencies, one of which is
\* reached on two paths, in a graph that has a crate outside the closure.
C5_Witness ==
    /\ ret.op = "transitive_deps"
    /\ \E v, w \in DOMAIN arena :
          v # w /\ Edge(arena, ret.of, v) /\ Edge(arena, ret.of, w) /\ Edge(arena, v, w)

\* C5 witness of the exclusion: a crate that is not reachable is not yielded.
C5_WitnessUnreachable ==
    /\ ret.op = "transitive_deps"
    /\ Cardinality(ret.out) = 2
    /\ Cardinality(DOMAIN arena) = 3

\* C6: transitive_rev_deps(u) yields exactly the crates from which u is reachable
\* by zero or more edges: u itself, the source of every edge to u, and no crate
\* that cannot reach u.
C6_TransitiveRevDeps ==
    ret.op = "transitive_rev_deps" =>
        /\ ret.out = {w \in DOMAIN arena : Reaches(arena, w, ret.of)}
        /\ ret.of \in ret.out
        /\ \A w \in DOMAIN arena : Edge(arena, w, ret.of) => w \in ret.out

\* C6 witness: the reverse closure of a crate that two crates depend on, one of
\* them through the other as well.
C6_Witness ==
    /\ ret.op = "transitive_rev_deps"
    /\ \E v, w \in DOMAIN arena :
          v # w /\ Edge(arena, v, ret.of) /\ Edge(arena, w, ret.of) /\ Edge(arena, w, v)

(***************************************************************************)
(* Claims about Change::apply.                                             *)
(***************************************************************************)
\* The step is a call of apply.
IsApply == applied' = applied + 1

\* The set_* calls that apply makes for the Change under construction.
ApplyCalls == apply(change, db).calls

\* The position of the last root of the list that has file f (0 when none has).
LastRootOf(roots, f) ==
    IF \E i \in 1..Len(roots) : f \in roots[i].file_set
    THEN CHOOSE i \in 1..Len(roots) :
            /\ f \in roots[i].file_set
            /\ \A j \in (i + 1)..Len(roots) : f \notin roots[j].file_set
    ELSE 0

\* Position k holds the last edit of the list for its file.
IsLastEdit(files_changed, k) ==
    \A j \in (k + 1)..Len(files_changed) : files_changed[j][1] # files_changed[k][1]

\* C7: when a Change carries roots and an edit of a file F of one of these roots,
\* apply makes every root call before the first text call, and when it returns
\* the text of F is stored with the durability of the root of this Change that F
\* is assigned to (LOW for a local root, HIGH for a library), whatever root F
\* had before; on an empty database, one local root with F and one edit of F
\* leave the text of F equal to the edit, at LOW durability.
C7_RootsBeforeTexts ==
    [][(IsApply /\ change.roots # None) =>
        LET roots == change.roots[1]
            edits == change.files_changed
            calls == ApplyCalls
        IN  /\ \A i, j \in 1..Len(calls) :
                  (calls[i].input \in {"source_root", "file_source_root"}
                      /\ calls[j].input = "file_text") => i < j
            /\ ~db'.panicked =>
                  \A k \in 1..Len(edits) :
                      LET F == edits[k][1]
                          r == LastRootOf(roots, F)
                      IN  (r # 0 /\ IsLastEdit(edits, k)) =>
                              /\ F \in DOMAIN db'.file_text
                              /\ db'.file_text[F].durability =
                                    (IF roots[r].is_library THEN HIGH ELSE LOW)
                              /\ db'.file_text[F].value = unwrap_or_default(edits[k][2])
            /\ (/\ db = EmptyDb
                /\ Len(roots) = 1 /\ ~roots[1].is_library
                /\ Len(edits) = 1 /\ edits[1][1] \in roots[1].file_set
                /\ edits[1][2] # None) =>
                  /\ ~db'.panicked
                  /\ db'.file_text[edits[1][1]] = [value |-> edits[1][2][1], durability |-> LOW]
                  /\ db'.file_source_root[edits[1][1]].durability = LOW
    ]_vars

\* C7 witness: after the second apply a file has its text at LOW durability and
\* is assigned to the local root 0, while the library root with this file that
\* the first apply installed as root 1 is still stored.
C7_Witness ==
    /\ applied = 2 /\ ~db.panicked
    /\ \E F \in Files :
          /\ F \in DOMAIN db.file_text /\ db.file_text[F] = [value |-> "a", durability |-> LOW]
          /\ F \in DOMAIN db.file_source_root /\ db.file_source_root[F].value = 0
          /\ 0 \in DOMAIN db.source_root /\ ~db.source_root[0].value.is_library
          /\ 1 \in DOMAIN db.source_root /\ db.source_root[1].value.is_library
          /\ F \in db.source_root[1].value.file_set

\* C8: for a list of n roots, apply stores the root at position i (from 0) under
\* SourceRootId(i) and sets the assignment of every file of that root to
\* SourceRootId(i), and makes no other root or assignment call; when apply is
\* over the root is stored under i, and every file is assigned to the last root
\* of the list that has it.
C8_RootIdsByPosition ==
    [][(IsApply /\ change.roots # None) =>
        LET roots == change.roots[1]
            calls == ApplyCalls
        IN  /\ \A i \in 1..Len(roots) :
                  /\ \E k \in 1..Len(calls) :
                        /\ calls[k].input = "source_root"
                        /\ calls[k].key = i - 1 /\ calls[k].value = roots[i]
                  /\ \A f \in roots[i].file_set : \E k \in 1..Len(calls) :
                        /\ calls[k].input = "file_source_root"
                        /\ calls[k].key = f /\ calls[k].value = i - 1
                  /\ (i - 1) \in DOMAIN db'.source_root
                  /\ db'.source_root[i - 1].value = roots[i]
                  /\ \A f \in roots[i].file_set :
                        LastRootOf(roots, f) = i => db'.file_source_root[f].value = i - 1
            /\ \A k \in 1..Len(calls) :
                  /\ calls[k].input = "source_root" =>
                        /\ calls[k].key \in 0..(Len(roots) - 1)
                        /\ calls[k].value = roots[calls[k].key + 1]
                  /\ calls[k].input = "file_source_root" =>
                        /\ calls[k].value \in 0..(Len(roots) - 1)
                        /\ calls[k].key \in roots[calls[k].value + 1].file_set
    ]_vars

\* C8 witness: two roots were installed by one apply, each with a file of its own.
C8_Witness ==
    /\ applied = 1
    /\ DOMAIN db.source_root = {0, 1}
    /\ \E f, g \in DOMAIN db.file_source_root :
          /\ db.file_source_root[f].value = 0 /\ f \in db.source_root[0].value.file_set
          /\ db.file_source_root[g].value = 1 /\ g \in db.source_root[1].value.file_set

\* C9: for every root of the list, the call that stores the root and the calls
\* that assign its files carry one durability, HIGH for a library and LOW for
\* a local root; the root is stored with it, and so is the assignment of every
\* file to the last root that has it.
C9_RootDurability ==
    [][(IsApply /\ change.roots # None) =>
        LET roots == change.roots[1]
            calls == ApplyCalls
            Dur(i) == IF roots[i].is_library THEN HIGH ELSE LOW
        IN  /\ \A k \in 1..Len(calls) :
                  /\ calls[k].input = "source_root" =>
                        calls[k].durability = Dur(calls[k].key + 1)
                  /\ calls[k].input = "file_source_root" =>
                        calls[k].durability = Dur(calls[k].value + 1)
            /\ \A i \in 1..Len(roots) :
                  /\ db'.source_root[i - 1].durability = Dur(i)
                  /\ \A f \in roots[i].file_set :
                        LastRootOf(roots, f) = i => db'.file_source_root[f].durability = Dur(i)
    ]_vars

\* C9 witness: one apply installed a library and a local root, each with a file.
C9_Witness ==
    /\ applied = 1
    /\ DOMAIN db.source_root = {0, 1}
    /\ db.source_root[0].value.is_library /\ db.source_root[0].durability = HIGH
    /\ ~db.source_root[1].value.is_library /\ db.source_root[1].durability = LOW
    /\ \E f, g \in DOMAIN db.file_source_root :
          /\ db.file_source_root[f] = [value |-> 0, durability |-> HIGH]
          /\ db.file_source_root[g] = [value |-> 1, durability |-> LOW]

(***************************************************************************)
(* Claims about CrateGraph::extend.                                        *)
(***************************************************************************)
\* The identifiers of a graph are 0 .. n-1.
Dense(g) == DOMAIN g = 0..(Cardinality(DOMAIN g) - 1)

\* C10: for graphs self (n crates) and other with dense identifiers,
\* self.extend(other) returns n; after it every crate of self is unchanged under
\* its identifier, every crate i of other is under i + n with every dependency
\* target t replaced by t + n and its other fields unchanged, the graph has no
\* other crate, and no edge joins a crate of the old self and a crate of other.
C10_ExtendDisjointUnion ==
    [][(ret'.op = "extend" /\ Dense(arena) /\ Dense(other)) =>
        LET n == Cardinality(DOMAIN arena)
            moved == {i + n : i \in DOMAIN other}
        IN  /\ ret'.start = n
            /\ \A k \in DOMAIN arena : k \in DOMAIN arena' /\ arena'[k] = arena[k]
            /\ \A i \in DOMAIN other :
                  /\ (i + n) \in DOMAIN arena'
                  /\ arena'[i + n].root_file_id = other[i].root_file_id
                  /\ arena'[i + n].display_name = other[i].display_name
                  /\ Len(arena'[i + n].dependencies) = Len(other[i].dependencies)
                  /\ \A j \in 1..Len(other[i].dependencies) :
                        /\ arena'[i + n].dependencies[j].crate_id
                              = other[i].dependencies[j].crate_id + n
                        /\ arena'[i + n].dependencies[j].name = other[i].dependencies[j].name
            /\ DOMAIN arena' = (DOMAIN arena) \cup moved
            /\ \A u \in DOMAIN arena, v \in moved :
                  ~Edge(arena', u, v) /\ ~Edge(arena', v, u)
    ]_vars

\* C10 witness: a graph with a dependency was merged into a graph that is not empty.
C10_Witness ==
    /\ ret.op = "extend" /\ ret.start >= 1
    /\ \E u \in DOMAIN arena :
          /\ u >= ret.start
          /\ Len(arena[u].dependencies) >= 1
          /\ arena[u].display_name # None

\* The edges of crate u of graph g as a set of (target, name) pairs.
EdgeSet(g, u) == {<<g[u].dependencies[i].crate_id, g[u].dependencies[i].name>> :
                    i \in 1..Len(g[u].dependencies)}

\* The pairs (id in the left grouping, id in the right grouping) of the crates
\* of the three inputs, by the amounts that the four extend calls returned.
MergeRelabel(a, b, c, r) ==
    {<<i, i>> : i \in DOMAIN a}
    \cup {<<i + r.left_starts[1], i + r.right_starts[2]>> : i \in DOMAIN b}
    \cup {<<i + r.left_starts[2], i + r.right_starts[1] + r.right_starts[2]>> : i \in DOMAIN c}

\* The edges with every target replaced by its partner under relabel.
TranslateEdges(relabel, edges) ==
    {<<x[1][2], x[2][2]>> : x \in {y \in relabel \X edges : y[1][1] = y[2][1]}}

\* C11: for three graphs A, B, C with dense identifiers, (A.extend(B)).extend(C)
\* and A.extend(B.extend(C)) have the same crates and the same edge set once the
\* identifier of each crate of an input is translated by the amounts that the
\* calls returned.
C11_ExtendAssociative ==
    [][ret'.op = "extend_both" =>
        LET left == arena'
            right == ret'.right
            relabel == MergeRelabel(arena, other, third, ret')
        IN  /\ {p[1] : p \in relabel} = DOMAIN left
            /\ {p[2] : p \in relabel} = DOMAIN right
            /\ Cardinality(relabel) = Cardinality(DOMAIN left)
            /\ Cardinality(relabel) = Cardinality(DOMAIN right)
            /\ Cardinality(relabel) = Cardinality(DOMAIN arena) + Cardinality(DOMAIN other)
                                          + Cardinality(DOMAIN third)
            /\ \A p \in relabel :
                  /\ left[p[1]].root_file_id = right[p[2]].root_file_id
                  /\ left[p[1]].display_name = right[p[2]].display_name
                  /\ \A e \in EdgeSet(left, p[1]) : e[1] \in DOMAIN left
                  /\ EdgeSet(right, p[2]) = TranslateEdges(relabel, EdgeSet(left, p[1]))
    ]_vars

\* C11 witness: three non-empty graphs were merged in both groupings, the second
\* and the third of two crates with an edge each.
C11_Witness ==
    /\ ret.op = "extend_both"
    /\ ret.left_starts[1] >= 1
    /\ ret.left_starts[2] = ret.left_starts[1] + 2
    /\ Cardinality(DOMAIN arena) = ret.left_starts[2] + 2
    /\ \E u \in ret.left_starts[1]..(ret.left_starts[2] - 1) : arena[u].dependencies # <<>>
    /\ \E u \in ret.left_starts[2]..(ret.left_starts[2] + 1) : arena[u].dependencies # <<>>

(***************************************************************************)
(* Claims about the identifiers of a graph.                                *)
(***************************************************************************)
\* C12: after any sequence of add_crate_root, add_dep, extend and patch_cfg_if
\* on an initially empty graph the identifiers of its n crates are 0 .. n-1;
\* add_crate_root returns n, the number of crates before the call, its assertion
\* that the identifier was unused holds, and no identifier is removed or reused.
C12_DenseIds ==
    [][/\ Dense(arena')
       /\ Dense(other')
       /\ DOMAIN arena \subseteq DOMAIN arena'
       /\ \A u \in DOMAIN arena :
             /\ arena'[u].root_file_id = arena[u].root_file_id
             /\ arena'[u].display_name = arena[u].display_name
       /\ ret'.op = "add_crate_root" =>
             /\ ret'.crate_id = Cardinality(DOMAIN arena)
             /\ ret'.prev_is_none
             /\ DOMAIN arena' = DOMAIN arena \cup {ret'.crate_id}
       /\ ret'.op = "other.add_crate_root" =>
             /\ ret'.crate_id = Cardinality(DOMAIN other)
             /\ ret'.prev_is_none
             /\ DOMAIN other' = DOMAIN other \cup {ret'.crate_id}
    ]_vars

\* C12 witness: add_crate_root returned 2 on a graph of two differently named
\* crates to which patch_cfg_if had added its edge.
C12_Witness ==
    /\ ret.op = "add_crate_root" /\ ret.crate_id = 2
    /\ \E u \in DOMAIN arena : \E i \in 1..Len(arena[u].dependencies) :
          arena[u].dependencies[i].name = "cfg_if"
    /\ arena[0].display_name # arena[1].display_name

(***************************************************************************)
(* Claims about CfgDiff and CfgOptions::apply_diff.                        *)
(***************************************************************************)
\* Some atom is at two positions of the list.
OccursTwice(items) == \E i, j \in 1..Len(items) : i # j /\ items[i] = items[j]

\* C13: CfgDiff::new(enable, disable) returns None exactly when some atom occurs
\* more than once in enable followed by disable; otherwise it returns a diff
\* that holds the two lists unchanged, in which no atom is in both lists and
\* none is listed twice.
C13_CfgDiffNew ==
    ret.op = "CfgDiff::new" =>
        /\ ret.out = None <=> OccursTwice(ret.enable \o ret.disable)
        /\ ret.out # None =>
              /\ ret.out[1].enable = ret.enable
              /\ ret.out[1].disable = ret.disable
              /\ Range(ret.out[1].enable) \cap Range(ret.out[1].disable) = {}
              /\ ~OccursTwice(ret.out[1].enable)
              /\ ~OccursTwice(ret.out[1].disable)
        /\ diff = ret.out

\* C13 witness: CfgDiff::new returned None for two lists without repetition
\* that share an atom.
C13_Witness ==
    /\ ret.op = "CfgDiff::new" /\ ret.out = None
    /\ ~OccursTwice(ret.enable) /\ ~OccursTwice(ret.disable)
    /\ Range(ret.enable) \cap Range(ret.disable) # {}

\* C14: apply_diff of a diff with lists enable and disable on the option set S
\* leaves the set (S \cup enable) \ disable.
C14_ApplyDiff ==
    [][ret'.op = "apply_diff" =>
        cfg_options' = (cfg_options \cup Range(ret'.diff.enable)) \ Range(ret'.diff.disable)]_vars

\* C14 witness: apply_diff enabled an atom that was not in the set, removed one
\* that was, and left a third one in the set.
C14_Witness ==
    /\ ret.op = "apply_diff"
    /\ Range(ret.diff.enable) \ ret.before # {}
    /\ Range(ret.diff.disable) \cap ret.before # {}
    /\ ret.before \cap cfg_options # {}

\* C15: apply_diff is idempotent: applying the same diff a second time leaves
\* the set that the first application left.
C15_ApplyDiffIdempotent ==
    [][(ret'.op = "apply_diff" /\ ret'.repeated) => cfg_options' = cfg_options]_vars

\* C15 witness: a diff that enables and disables atoms was applied twice in a
\* row to a set that its first application had changed.
C15_Witness ==
    /\ ret.op = "apply_diff" /\ ret.repeated
    /\ ret.diff.enable # <<>> /\ ret.diff.disable # <<>>
    /\ Range(ret.diff.enable) \subseteq cfg_options
    /\ cfg_options \ Range(ret.diff.enable) # {}

(***************************************************************************)
(* Claims about the data that add_dep and crate_id_for_crate_root handle.  *)
(***************************************************************************)
\* C16: the cycle error of a rejected add_dep(from, name, to) carries the
\* identifier and the display name of `from` and of `to` as they are in the
\* graph at the time of the call: with edges A -> B -> C, add_dep(C, "a", A)
\* reports C as from and A as to.
C16_CycleErrorEnds ==
    [][(ret'.op = "add_dep" /\ ~ret'.ok) =>
        /\ ret'.err # None
        /\ ret'.err[1].from = <<ret'.from, arena[ret'.from].display_name>>
        /\ ret'.err[1].to = <<ret'.to, arena[ret'.to].display_name>>
        /\ (/\ Edge(arena, 0, 1) /\ Edge(arena, 1, 2)
            /\ ret'.from = 2 /\ ret'.to = 0)
           => (ret'.err[1].from[1] = 2 /\ ret'.err[1].to[1] = 0)
    ]_vars

\* C16 witness: with edges 0 -> 1 -> 2, add_dep(2, name, 0) was rejected, and
\* the display names of crates 0 and 2 differ.
C16_Witness ==
    /\ ret.op = "add_dep" /\ ~ret.ok
    /\ ret.from = 2 /\ ret.to = 0
    /\ Edge(arena, 0, 1) /\ Edge(arena, 1, 2)
    /\ arena[0].display_name # arena[2].display_name
    /\ ret.err[1].from[2] = arena[2].display_name

\* C17: a successful add_dep(from, name, to) appends exactly one edge (to, name)
\* at the end of the list of `from`, keeps the earlier edges of `from` in their
\* order, and changes no other crate and no other field; an edge equal in name
\* or target to an existing one is appended all the same.
C17_AddDepAppends ==
    [][(ret'.op = "add_dep" /\ ret'.ok) =>
        LET from == ret'.from
            old == arena[from].dependencies
            new == arena'[from].dependencies
        IN  /\ DOMAIN arena' = DOMAIN arena
            /\ \A u \in DOMAIN arena \ {from} : arena'[u] = arena[u]
            /\ arena'[from].root_file_id = arena[from].root_file_id
            /\ arena'[from].display_name = arena[from].display_name
            /\ Len(new) = Len(old) + 1
            /\ new[Len(new)] = [crate_id |-> ret'.to, name |-> ret'.name]
            /\ \A i \in 1..Len(old) : new[i] = old[i]
    ]_vars

\* C17 witness: a successful add_dep appended an edge equal to an earlier edge
\* of the same crate, after an edge of another name.
C17_Witness ==
    /\ ret.op = "add_dep" /\ ret.ok
    /\ LET deps == arena[ret.from].dependencies
       IN  /\ Len(deps) = 3
           /\ deps[3] = [crate_id |-> ret.to, name |-> ret.name]
           /\ deps[1] = deps[3]
           /\ deps[2].name # deps[3].name

\* C18: crate_id_for_crate_root(file) returns None exactly when no crate has
\* `file` as its root file; otherwise it returns the identifier of a crate whose
\* root file is `file`, also when several crates share that root file.
C18_CrateIdForCrateRoot ==
    ret.op = "crate_id_for_crate_root" =>
        /\ ret.out = None <=> ~\E u \in DOMAIN arena : arena[u].root_file_id = ret.file_id
        /\ ret.out # None =>
              /\ ret.out[1] \in DOMAIN arena
              /\ arena[ret.out[1]].root_file_id = ret.file_id

\* C18 witness: of two crates with the root file asked for, the lookup returned
\* the one with the larger identifier.
C18_Witness ==
    /\ ret.op = "crate_id_for_crate_root" /\ ret.out # None
    /\ \E u \in DOMAIN arena :
          /\ u < ret.out[1]
          /\ arena[u].root_file_id = ret.file_id
          /\ arena[u].display_name # arena[ret.out[1]].display_name

(***************************************************************************)
(* Claims about the edits and the graph of a Change.                       *)
(***************************************************************************)
\* The calls of the list that set the input named.
CallsOf(calls, input) == SelectSeq(calls, LAMBDA c : c.input = input)

\* C19: apply handles the edits in the order of the list: it makes one text call
\* per edit, in that order, and when it returns the text stored for every edited
\* file is the text of the last edit of that file in the list; an edit without
\* text stores the empty text, and the file keeps an entry.
C19_EditsInListOrder ==
    [][(IsApply /\ ~db'.panicked) =>
        LET edits == change.files_changed
            texts == CallsOf(ApplyCalls, "file_text")
        IN  /\ Len(texts) = Len(edits)
            /\ \A k \in 1..Len(edits) :
                  /\ texts[k].key = edits[k][1]
                  /\ texts[k].value = (IF edits[k][2] = None THEN "" ELSE edits[k][2][1])
                  /\ IsLastEdit(edits, k) =>
                        /\ edits[k][1] \in DOMAIN db'.file_text
                        /\ db'.file_text[edits[k][1]].value =
                              (IF edits[k][2] = None THEN "" ELSE edits[k][2][1])
    ]_vars

\* C19 witness: apply returned for a Change with two edits of one file, the
\* first with a text and the second without, and the file has the empty text.
C19_Witness ==
    /\ ret.op = "apply" /\ ~db.panicked
    /\ Len(ret.change.files_changed) = 2
    /\ ret.change.files_changed[1][1] = ret.change.files_changed[2][1]
    /\ ret.change.files_changed[1][2] # None
    /\ ret.change.files_changed[2][2] = None
    /\ db.file_text[ret.change.files_changed[1][1]].value = ""

\* C20: when a Change carries a graph, apply installs that graph with HIGH
\* durability by its last call, after every root and text call of the same
\* Change; when it carries none, the graph of the database stays as it was.
C20_GraphLast ==
    [][IsApply =>
        LET calls == ApplyCalls
            graphs == CallsOf(calls, "crate_graph")
        IN  /\ \A i, j \in 1..Len(calls) :
                  (calls[i].input # "crate_graph" /\ calls[j].input = "crate_graph") => i < j
            /\ (change.crate_graph # None /\ ~db'.panicked) =>
                  /\ Len(graphs) = 1
                  /\ calls[Len(calls)] =
                        Call("crate_graph", None, change.crate_graph[1], HIGH)
                  /\ db'.crate_graph =
                        Some([value |-> change.crate_graph[1], durability |-> HIGH])
            /\ change.crate_graph = None =>
                  /\ Len(graphs) = 0
                  /\ db'.crate_graph = db.crate_graph
    ]_vars

\* C20 witness: the second apply returned for a Change with a root, an edit and
\* the graph of the crate std, which is the graph of the database.
C20_Witness ==
    /\ ret.op = "apply" /\ ~db.panicked /\ applied = 2
    /\ ret.change.roots # None /\ ret.change.roots[1] # <<>>
    /\ ret.change.files_changed # <<>>
    /\ ret.change.crate_graph # None
    /\ db.crate_graph = Some([value |-> ret.change.crate_graph[1], durability |-> HIGH])
    /\ db.crate_graph[1].value # add_crate_root(EmptyGraph, 1, None).graph

(***************************************************************************)
(* Claims about the roots that stay in the database.                       *)
(***************************************************************************)
\* C21: after apply of a Change whose list of roots has n roots, the source
\* roots of the database are exactly these n roots, under 0 .. n-1; no root
\* that an earlier Change installed (under an identifier >= n) remains.
C21_RootsReplacedWholesale ==
    [][(IsApply /\ change.roots # None /\ ~db'.panicked) =>
        LET roots == change.roots[1]
        IN  /\ DOMAIN db'.source_root = 0..(Len(roots) - 1)
            /\ \A i \in 1..Len(roots) : db'.source_root[i - 1].value = roots[i]
    ]_vars

\* C24: after any sequence of apply calls, for every file with a recorded
\* assignment to a root r, the source root stored under r has the file as a
\* member.
C24_AssignedRootHasFile ==
    ~db.panicked =>
        \A f \in DOMAIN db.file_source_root :
            LET r == db.file_source_root[f].value
            IN  /\ r \in DOMAIN db.source_root
                /\ f \in db.source_root[r].value.file_set

(***************************************************************************)
(* Claims about CrateName.                                                 *)
(***************************************************************************)
\* C22: CrateName::new(name) fails, returning name, exactly when name has a
\* dash; normalize_dashes(name) never fails and yields name with every dash
\* replaced by an underscore, which is the value that CrateName::new accepts for
\* the replaced string ("crate-name-with-dashes" gives "crate_name_with_dashes").
C22_CrateName ==
    /\ ret.op = "CrateName::new" =>
          /\ ~ret.out.is_ok <=> (\E i \in 1..Len(ret.name) : ret.name[i] = "-")
          /\ ~ret.out.is_ok => ret.out.value = ret.name
    /\ ret.op = "normalize_dashes" =>
          /\ Len(ret.out) = Len(ret.name)
          /\ \A i \in 1..Len(ret.name) :
                ret.out[i] = (IF ret.name[i] = "-" THEN "_" ELSE ret.name[i])
          /\ CrateName_new(ret.out).is_ok
          /\ CrateName_new(ret.out).value = ret.out
          /\ ret.name = DashedTestName =>
                ret.out = <<"c", "r", "a", "t", "e", "_", "n", "a", "m", "e", "_", "w", "i", "t", "h", "_", "d", "a", "s", "h", "e", "s">>

\* C22 witness: normalize_dashes was called with a name of two dashes around
\* a letter, which CrateName::new rejects.
C22_Witness ==
    /\ ret.op = "normalize_dashes"
    /\ ret.name = <<"-", "a", "-">>
    /\ ~CrateName_new(ret.name).is_ok
    /\ ret.out = <<"_", "a", "_">>

(***************************************************************************)
(* Claims about the traversals.                                            *)
(***************************************************************************)
\* No element is at two positions of the list.
NoRepeat(s) == \A i, j \in 1..Len(s) : i # j => s[i] # s[j]

\* What the traversal that has just returned, if any, returned is what the
\* traversal computed in one piece returns.
WalkAgrees ==
    [][(walk # Idle /\ walk' = Idle) =>
        /\ walk.op = "transitive_deps" => ret'.out = transitive_deps(arena, walk.of)
        /\ walk.op = "transitive_rev_deps" =>
              ret'.out = transitive_rev_deps(arena, walk.keys, walk.of)
        /\ walk.op = "crates_in_topological_order" =>
              ret'.out = crates_in_topological_order(arena, walk.keys)
        /\ walk.op = "add_dep" =>
              LET r == add_dep(arena, walk.from, walk.name, walk.to)
              IN  arena' = r.graph /\ ret'.ok = r.ok /\ ret'.err = r.err
    ]_vars

\* C23: on every graph built by add_crate_root and add_dep, also one with a
\* diamond, every call of transitive_deps, transitive_rev_deps,
\* crates_in_topological_order and of the search of add_dep returns, and while
\* it runs it starts to iterate the dependency list of a crate (and its list in
\* the inverted graph) at most once.
C23_TerminatesExpandingOnce ==
    /\ [](walk # Idle =>
            /\ NoRepeat(walk.expanded)
            /\ walk.op = "transitive_rev_deps" => NoRepeat(walk.rev_expanded))
    /\ (walk # Idle) ~> (walk = Idle)

\* C23 witness: transitive_deps of the top of the diamond has inserted the four
\* crates and still has the bottom crate, reached a second time, on its worklist.
C23_Witness ==
    /\ walk.op = "transitive_deps" /\ walk.of = 0
    /\ arena = DiamondGraph
    /\ walk.deps = {0, 1, 2, 3}
    /\ walk.worklist = <<3>>

\* C25: apply changes only what the Change names: without a list of roots every
\* stored root and every assignment of a file to a root stay as they were,
\* without a graph the stored graph stays as it was, and the text and the
\* durability of the text of every file that no edit names stay as they were.
C25_ApplyFrame ==
    [][IsApply =>
        /\ change.roots = None =>
              /\ db'.source_root = db.source_root
              /\ db'.file_source_root = db.file_source_root
        /\ change.crate_graph = None => db'.crate_graph = db.crate_graph
        /\ \A f \in Files :
              (\A k \in 1..Len(change.files_changed) : change.files_changed[k][1] # f) =>
                  /\ f \in DOMAIN db'.file_text <=> f \in DOMAIN db.file_text
                  /\ f \in DOMAIN db.file_text => db'.file_text[f] = db.file_text[f]
    ]_vars

\* C25 witness: the second apply returned for a Change of one edit, without roots
\* and without graph, on a database with a root, a graph and a text of another file.
C25_Witness ==
    /\ ret.op = "apply" /\ ~db.panicked /\ applied = 2
    /\ ret.change.roots = None /\ ret.change.crate_graph = None
    /\ Len(ret.change.files_changed) = 1
    /\ db.crate_graph # None
    /\ db.source_root # <<>>
    /\ \E f \in DOMAIN db.file_text :
          /\ f # ret.change.files_changed[1][1]
          /\ db.file_text[f].value = "a"

(***************************************************************************)
(* Claims about the calls that build a Change.                             *)
(***************************************************************************)
RECURSIVE InOrderOfLoad(_, _, _)
\* The Change built from the calls of a list in the order of load_crate_graph:
\* the change_file calls in their order, then the last set_roots, then the last
\* set_crate_graph.
InOrderOfLoad(log, i, c) ==
    IF i > Len(log)
    THEN LET roots == SelectSeq(log, LAMBDA x : x.call = "set_roots")
             graphs == SelectSeq(log, LAMBDA x : x.call = "set_crate_graph")
             with_roots == IF roots = <<>> THEN c
                           ELSE [c EXCEPT !.roots = Some(roots[Len(roots)].roots)]
         IN  IF graphs = <<>> THEN with_roots
             ELSE [with_roots EXCEPT !.crate_graph = Some(graphs[Len(graphs)].graph)]
    ELSE IF log[i].call = "change_file"
    THEN InOrderOfLoad(log, i + 1,
                       [c EXCEPT !.files_changed = Append(@, <<log[i].file_id, log[i].new_text>>)])
    ELSE InOrderOfLoad(log, i + 1, c)

\* C26: the effect of apply does not depend on the order in which the Change was
\* built: whatever the interleaving of the set_roots, change_file and
\* set_crate_graph calls, apply leaves the database as it leaves it for the
\* Change that has the edits of the change_file calls in their order, the roots
\* of the last set_roots and the graph of the last set_crate_graph.
C26_BuildOrder ==
    [][IsApply =>
        LET c == InOrderOfLoad(BuildLog, 1, [roots |-> None, files_changed |-> <<>>,
                                             crate_graph |-> None])
        IN  /\ change = c
            /\ db' = [apply(c, db) EXCEPT !.calls = <<>>]
    ]_vars

\* C26 witness: apply returned for a Change built by set_crate_graph, set_roots,
\* change_file and a second, different set_roots, in this order.
C26_Witness ==
    /\ ret.op = "applied" /\ ~db.panicked
    /\ Len(ret.log) = 4
    /\ ret.log[1].call = "set_crate_graph"
    /\ ret.log[2].call = "set_roots"
    /\ ret.log[3].call = "change_file"
    /\ ret.log[4].call = "set_roots"
    /\ ret.log[2].roots # ret.log[4].roots
    /\ db.source_root[0].value = ret.log[4].roots[1]
    /\ db.file_text[ret.log[3].file_id].value = "a"

(***************************************************************************)
(* Claims about extend and patch_cfg_if.                                   *)
(***************************************************************************)
\* No crate of the graph reaches itself by one or more edges.
Acyclic(g) == \A u \in DOMAIN g : ~ReachesByEdges(g, u, u)

\* Some crate of the graph has the display name.
HasCrateNamed(g, display_name) ==
    \E u \in DOMAIN g : g[u].display_name = Some(display_name)

\* C27: the operations that add edges without the cycle check keep the graph
\* acyclic: for acyclic graphs self and other with dense identifiers the graph
\* after self.extend(other) is acyclic, and an acyclic graph is acyclic after
\* patch_cfg_if.
C27_AcyclicKept ==
    [][/\ (ret'.op = "extend" /\ Dense(arena) /\ Dense(other)
              /\ Acyclic(arena) /\ Acyclic(other)) => Acyclic(arena')
       /\ (ret'.op = "patch_cfg_if" /\ Acyclic(arena)) => Acyclic(arena')
    ]_vars

\* C27 witness: patch_cfg_if returned true on a graph in which the crate cfg_if
\* depended on the crate std, and std now depends on cfg_if.
C27_Witness ==
    /\ ret.op = "patch_cfg_if" /\ ret.out
    /\ \E c, s \in DOMAIN arena :
          /\ arena[c].display_name = Some("cfg_if")
          /\ arena[s].display_name = Some("std")
          /\ Edge(ret.before, c, s)
          /\ Edge(arena, s, c)
          /\ ~Edge(arena, c, s)

\* C28: patch_cfg_if returns true exactly when the graph has a crate with the
\* display name "cfg_if" and one with the display name "std"; then the
\* dependencies of the cfg_if crate become empty, one edge named "cfg_if" to
\* the cfg_if crate is appended to the dependencies of the std crate, and every
\* other crate is unchanged; otherwise it returns false and the graph is unchanged.
C28_PatchCfgIf ==
    [][ret'.op = "patch_cfg_if" =>
        /\ ret'.out <=> (HasCrateNamed(arena, "cfg_if") /\ HasCrateNamed(arena, "std"))
        /\ ~ret'.out => arena' = arena
        /\ ret'.out =>
              \E c, s \in DOMAIN arena :
                  /\ arena[c].display_name = Some("cfg_if")
                  /\ arena[s].display_name = Some("std")
                  /\ DOMAIN arena' = DOMAIN arena
                  /\ arena'[c] = [arena[c] EXCEPT !.dependencies = <<>>]
                  /\ arena'[s].root_file_id = arena[s].root_file_id
                  /\ arena'[s].display_name = arena[s].display_name
                  /\ Len(arena'[s].dependencies) = Len(arena[s].dependencies) + 1
                  /\ \A i \in 1..Len(arena[s].dependencies) :
                        arena'[s].dependencies[i] = arena[s].dependencies[i]
                  /\ arena'[s].dependencies[Len(arena'[s].dependencies)] =
                        [crate_id |-> c, name |-> "cfg_if"]
                  /\ \A u \in DOMAIN arena \ {c, s} : arena'[u] = arena[u]
    ]_vars

\* C28 witness: patch_cfg_if returned true on a graph in which both the cfg_if
\* crate and the std crate had a dependency.
C28_Witness ==
    /\ ret.op = "patch_cfg_if" /\ ret.out
    /\ \E c, s \in DOMAIN arena :
          /\ arena[c].display_name = Some("cfg_if")
          /\ arena[s].display_name = Some("std")
          /\ ret.before[c].dependencies # <<>>
          /\ ret.before[s].dependencies # <<>>
          /\ arena[c].dependencies = <<>>
          /\ Len(arena[s].dependencies) = Len(ret.before[s].dependencies) + 1


\* A message that ends the loop over the receiver.
IsDone(task) == task.kind = "Progress" /\ task.n_done = task.n_total

\* The (path, contents) pairs of the Loaded messages among msgs, in order.
RECURSIVE WritesOf(_)
WritesOf(msgs) ==
    IF msgs = <<>> THEN <<>>
    ELSE (IF Head(msgs).kind = "Loaded" THEN Head(msgs).files ELSE <<>>) \o WritesOf(Tail(msgs))

\* A change taken from the vfs that stands for a file that exists and whose
\* contents in the vfs are UTF-8.
HasText(file) ==
    /\ file.change_kind # "Delete"
    /\ load.vfs.data[file.file_id + 1] # None
    /\ utf8_from(load.vfs.data[file.file_id + 1][1], 1)

\* C29: load_crate_graph receives the loader's messages in the order they were
\* sent and stops at the first Progress with n_done = n_total, or when the
\* channel is closed and empty: no such Progress is among the messages before
\* the last one received, and the later messages stay in the channel.  When the
\* loop has ended, the vfs holds for every path the contents of its last pair
\* among the Loaded messages received, and that before the changes are taken.
\* The Change returned has a list of roots and the crate graph given, and its
\* edits are, in the order of the changes taken, one edit with the text
\* present for each change of a file that exists and holds UTF-8, and no other.
C29_LoadCrateGraph ==
    load.pc # "none" =>
        LET k == load.received
            got == SubSeq(load.sent, 1, k)
            w == WritesOf(got)
            ended == load.pc \in {"take", "done", "panicked"}
            texts == SelectSeq(load.taken, HasText)
        IN  /\ k <= Len(load.sent)
            /\ load.channel = SubSeq(load.sent, k + 1, Len(load.sent))
            /\ \A i \in 1..(k - 1) : ~IsDone(load.sent[i])
            /\ load.pc = "recv" => \A i \in 1..k : ~IsDone(load.sent[i])
            /\ ended =>
                  \/ k > 0 /\ IsDone(load.sent[k])
                  \/ load.closed /\ k = Len(load.sent)
            /\ ended =>
                  \A i \in 1..Len(w) :
                      (\A j \in (i + 1)..Len(w) : w[j][1] # w[i][1]) =>
                          /\ Vfs_file_id(load.vfs, w[i][1]) # None
                          /\ load.vfs.data[Vfs_file_id(load.vfs, w[i][1])[1] + 1] = w[i][2]
            /\ load.pc = "take" => load.taken = <<>> /\ change = Change_new
            /\ load.pc = "done" =>
                  /\ change.roots # None
                  /\ change.crate_graph = Some(load.crate_graph)
                  /\ Len(change.files_changed) = Len(texts)
                  /\ \A i \in 1..Len(texts) :
                        /\ change.files_changed[i][1] = texts[i].file_id
                        /\ change.files_changed[i][2] =
                              Some(load.vfs.data[texts[i].file_id + 1][1])

\* load_crate_graph has returned a Change after a Loaded message and the
\* Progress that ended the loop, with a message left in the channel, an edit
\* for a file that holds UTF-8 and none for another changed file.
C29_Witness ==
    /\ load.pc = "done"
    /\ load.received = 2
    /\ load.sent[1].kind = "Loaded"
    /\ IsDone(load.sent[2])
    /\ load.channel # <<>>
    /\ change.files_changed # <<>>
    /\ Len(load.taken) > Len(change.files_changed)

====
